---- MODULE Spec2Model ----
(***************************************************************************)
(* Record & replay recorder of mcp-chrome: the in-page ContentRecorder     *)
(* (inject-scripts/recorder.js), the RecordingSessionManager and the       *)
(* RecorderManager stop barrier (recording/session-manager.ts).            *)
(*                                                                         *)
(* One tab (tab 1) carries a top-frame recorder and a child-frame          *)
(* recorder; a second tab (tab 2) takes part in a session only through     *)
(* addActiveTab and its answer to STOP.  Timers are armed flags that fire  *)
(* at any later moment; the 800 ms fill window is a flag that time may     *)
(* clear.  Messages of one frame to the background travel in FIFO order.   *)
(***************************************************************************)
EXTENDS Integers, Sequences, FiniteSets, TLC

\* ---------------------------------------------------------------- bounds
MaxEvents == 2       \* DOM events the user produces in one run
MaxSessions == 1     \* sessions begun from idle in one run
MaxPauses == 1       \* RecorderManager.pause calls in one run
MaxStartCalls == 2   \* RecorderManager.start calls in one run
MaxStopCalls == 2    \* RecorderManager.stop calls in one run
MaxBatch == 2        \* Steps or variables in one content message (SpecAppend)
MaxAppends == 3      \* content messages of recorders outside the model in one run
MaxResumes == 1      \* resume commands sent to a recorder in one run (SpecRecorder)
MaxInputs == 3       \* DOM events in one run of fast typing (SpecTyping)
MaxScrolls == 3      \* scroll events in one run of scrolling (SpecScroll)
MaxInjects == 3      \* runs of recorder.js in one document (SpecInject)

Frames == {"top", "child"}
OriginTab == 1
OtherTab == 2
Tabs == {OriginTab, OtherTab}

\* ------------------------------------------------------------ data model
\* A Step: id 0 stands for a missing id; sel is the target selector as its
\* list of segments (<<"#f", "#x">> is "#f |> #x", <<>> is no target);
\* cand is target.candidates, each value a list of segments as sel is;
\* val is the fill value or the scroll offset; ref is _recordingRef.  ev is
\* not a field of the program: it names the DOM event that created the Step
\* object (0: none), so that properties can follow one Step through the
\* buffers and messages.
NoStep ==
  [id |-> 0, type |-> "none", sel |-> <<>>, cand |-> <<>>, val |-> "", ref |-> "",
   ev |-> 0]

\* buildTarget: the elements of the documents have a unique id, which
\* _choosePrimary takes as selector and _generateSelector gives as the css
\* candidate; the inputs named "pwd" have the name candidate as well
Candidates(sel) ==
  IF sel = <<>> THEN <<>>
  ELSE <<[type |-> "css", value |-> sel]>>
         \o (IF sel \in {<<"#p">>, <<"#u">>}
             THEN <<[type |-> "attr", value |-> <<"[name=pwd]">>]>> ELSE <<>>)

mkStep(type, sel, val, ref, ev) ==
  [id |-> 0, type |-> type, sel |-> sel, cand |-> Candidates(sel), val |-> val,
   ref |-> ref, ev |-> ev]

\* _flush strips _recordingRef before sending
sanitize(s) == [s EXCEPT !.ref = ""]

NoScroll == [isDoc |-> FALSE, sel |-> <<>>, off |-> "", ev |-> 0]
NoFill == [step |-> 0, fresh |-> FALSE]

Range(s) == {s[i] : i \in 1..Len(s)}
IdsOf(steps) == [i \in 1..Len(steps) |-> steps[i].id]
IndexOfId(steps, id) ==
  IF \E i \in 1..Len(steps) : steps[i].id = id
  THEN CHOOSE i \in 1..Len(steps) :
         steps[i].id = id /\ \A j \in 1..Len(steps) : steps[j].id = id => j <= i
  ELSE 0

\* ------------------------------------------ RecordingSessionManager (pure)
\* RecordingSessionState; flow is a reference into the heap of Flow objects
\* (0 is null), originTabId 0 is null, sessionId 0 is ''.
InitialSession ==
  [sessionId |-> 0, status |-> "idle", originTabId |-> 0, flow |-> 0,
   activeTabs |-> {}, stoppedTabs |-> {}]

\* faulty variant: the status is left as it was
startSessionKeepsIdle(flowRef, tabId, sid) ==
  [sessionId |-> sid, status |-> "idle", originTabId |-> tabId,
   flow |-> flowRef, activeTabs |-> {tabId}, stoppedTabs |-> {}]

startSession(flowRef, tabId, sid) ==
  [sessionId |-> sid, status |-> "recording", originTabId |-> tabId,
   flow |-> flowRef, activeTabs |-> {tabId}, stoppedTabs |-> {}]

addActiveTab(s, tabId) == [s EXCEPT !.activeTabs = @ \cup {tabId}]

\* faulty variant: the status is not moved to stopping
beginStoppingKeepsStatus(s) == s

beginStopping(s) ==
  IF s.status = "idle" THEN s
  ELSE [s EXCEPT !.status = "stopping", !.stoppedTabs = {}]

\* faulty variant: steps are refused during the stop barrier
canAcceptStepsRecordingOnly(s) == s.status = "recording"

canAcceptSteps(s) == s.status = "recording" \/ s.status = "stopping"

pause(s) == IF s.status = "recording" THEN [s EXCEPT !.status = "paused"] ELSE s

resume(s) == IF s.status = "paused" THEN [s EXCEPT !.status = "recording"] ELSE s

\* faulty variant: the state is not reset
stopSessionKeepsState(s) == s

stopSession(s) ==
  [s EXCEPT !.status = "idle", !.flow = 0, !.originTabId = 0,
            !.activeTabs = {}, !.stoppedTabs = {}]

\* faulty variant: the map starts empty, no id of the Flow is known
existingStepMapEmpty(steps) == [id \in {} |-> 0]

\* existingStepMap: id -> index; forEach set() keeps the last index of an id,
\* steps without an id are not entered.
existingStepMap(steps) ==
  [id \in {steps[i].id : i \in 1..Len(steps)} \ {0} |-> IndexOfId(steps, id)]

\* ids minted by the background are 100, 101, ...: disjoint from the
\* recorders' ids, as `step_${Date.now()}_${random}` tokens are taken to be.
MintBase == 100

RECURSIVE upsertLoop(_, _, _, _)
upsertLoop(steps, map, incoming, mint) ==
  IF incoming = <<>> THEN steps
  ELSE LET s0 == Head(incoming)
           step == IF s0.id = 0 THEN [s0 EXCEPT !.id = mint] ELSE s0
           mint2 == IF s0.id = 0 THEN mint + 1 ELSE mint
       IN IF step.id \in DOMAIN map
          THEN upsertLoop([steps EXCEPT ![map[step.id]] = step], map,
                          Tail(incoming), mint2)
          ELSE upsertLoop(Append(steps, step),
                          map @@ (step.id :> Len(steps) + 1),
                          Tail(incoming), mint2)

\* faulty variant: every incoming Step is pushed
appendStepsAlwaysPush(steps, incoming, mint) ==
  steps \o [i \in 1..Len(incoming) |->
             IF incoming[i].id = 0
             THEN [incoming[i] EXCEPT !.id =
                     mint + Cardinality({j \in 1..i - 1 : incoming[j].id = 0})]
             ELSE incoming[i]]

\* RecordingSessionManager.appendSteps on the steps of the live Flow
appendSteps(steps, incoming, mint) ==
  IF incoming = <<>> THEN steps
  ELSE upsertLoop(steps, existingStepMap(steps), incoming, mint)

Minted(incoming) == Cardinality({i \in 1..Len(incoming) : incoming[i].id = 0})

KeyIndex(vars, key) ==
  IF \E i \in 1..Len(vars) : vars[i].key = key
  THEN CHOOSE i \in 1..Len(vars) :
         vars[i].key = key /\ \A j \in 1..Len(vars) : vars[j].key = key => i <= j
  ELSE 0

\* faulty variant: a key the Flow holds keeps its first definition
RECURSIVE appendVariablesFirstWins(_, _)
appendVariablesFirstWins(vars, incoming) ==
  IF incoming = <<>> THEN vars
  ELSE LET v == Head(incoming)
       IN IF v.key = "" \/ KeyIndex(vars, v.key) > 0
          THEN appendVariablesFirstWins(vars, Tail(incoming))
          ELSE appendVariablesFirstWins(Append(vars, v), Tail(incoming))

\* RecordingSessionManager.appendVariables on the variables of the live Flow
RECURSIVE appendVariables(_, _)
appendVariables(vars, incoming) ==
  IF incoming = <<>> THEN vars
  ELSE LET v == Head(incoming)
       IN IF v.key = "" THEN appendVariables(vars, Tail(incoming))
          ELSE IF KeyIndex(vars, v.key) > 0
               THEN appendVariables([vars EXCEPT ![KeyIndex(vars, v.key)] = v],
                                    Tail(incoming))
               ELSE appendVariables(Append(vars, v), Tail(incoming))

EmptyFlow == [steps |-> <<>>, variables |-> <<>>]

\* -------------------------------------------------- ContentRecorder (pure)
\* The recorder of one frame.  steps, batch and lastFill.step hold object
\* references: ids into obj, the recorder's Step objects.  outBg is what the
\* frame has handed to chrome.runtime.sendMessage (and sendResponse), outWin
\* what a child frame has posted to window.top.  reply is the outcome of the
\* send that stop() awaits.
NewRecorder ==
  [isRecording |-> FALSE, isPaused |-> FALSE, attached |-> FALSE,
   steps |-> <<>>, variables |-> <<>>, batch |-> <<>>, obj |-> <<>>,
   batchTimer |-> FALSE, scrollTimer |-> FALSE,
   pendingClick |-> NoStep, pendingClickTimer |-> FALSE,
   scrollPending |-> NoScroll, lastFill |-> NoFill,
   stopPc |-> "none", stepsAck |-> TRUE, stepsCount |-> 0, varsCount |-> 0,
   reply |-> "none", outBg |-> <<>>, outWin |-> <<>>, idc |-> 0]

StepsMsg(steps, awaited) ==
  [kind |-> "steps", steps |-> steps, variables |-> <<>>,
   awaited |-> awaited, ack |-> FALSE, nsteps |-> 0, nvars |-> 0]
VarsMsg(vars, awaited) ==
  [kind |-> "variables", steps |-> <<>>, variables |-> vars,
   awaited |-> awaited, ack |-> FALSE, nsteps |-> 0, nvars |-> 0]
\* the reply to STOP: {ack, stats: {steps: nsteps, variables: nvars}}
StopReplyMsg(ack, nsteps, nvars) ==
  [kind |-> "stopReply", steps |-> <<>>, variables |-> <<>>,
   awaited |-> FALSE, ack |-> ack, nsteps |-> nsteps, nvars |-> nvars]

\* Step objects no reference reaches any more are dropped from obj
Live(R) == Range(R.steps) \cup Range(R.batch) \cup ({R.lastFill.step} \ {0})
Collect(R) == [R EXCEPT !.obj = [i \in (DOMAIN R.obj) \cap Live(R) |-> R.obj[i]]]

\* ids of the Steps a recorder creates (`step_${Date.now()}_${random}`, taken
\* to be unique): 1, 2, ... in the top frame, 51, 52, ... in the child frame
IdBase(f) == IF f = "top" THEN 0 ELSE 50
NextId(R, f) == IdBase(f) + R.idc + 1

\* _pushStep: a child frame posts the Step to window.top and keeps nothing;
\* the top frame appends to sessionBuffer.steps and to the batch and re-arms
\* the 100 ms batch timer.
pushStep(R, f, step) ==
  LET s == IF step.id = 0 THEN [step EXCEPT !.id = NextId(R, f)] ELSE step
      R0 == IF step.id = 0 THEN [R EXCEPT !.idc = @ + 1] ELSE R
  IN IF f # "top"
     THEN [R0 EXCEPT !.outWin = Append(@, s), !.obj = (s.id :> s) @@ @]
     ELSE [R0 EXCEPT !.steps = Append(@, s.id), !.batch = Append(@, s.id),
                     !.obj = (s.id :> s) @@ @, !.batchTimer = TRUE]

\* _flush: sends the batch (sanitized copies) and empties it
flush(R, awaited) ==
  IF R.batch = <<>> THEN R
  ELSE [R EXCEPT
          !.outBg = Append(@, StepsMsg([i \in 1..Len(R.batch) |->
                                          sanitize(R.obj[R.batch[i]])], awaited)),
          !.batch = <<>>]

\* faulty variant: the Step is always appended to the batch
enqueueForUpsertAlwaysPush(R, id) ==
  IF id = 0 THEN R
  ELSE [R EXCEPT !.batch = Append(@, id), !.batchTimer = TRUE]

\* _enqueueForUpsert
enqueueForUpsert(R, id) ==
  IF id = 0 THEN R
  ELSE IF id \in Range(R.batch) THEN [R EXCEPT !.batchTimer = TRUE]
       ELSE [R EXCEPT !.batch = Append(@, id), !.batchTimer = TRUE]

\* _addVariable
addVariable(R, key, sensitive) ==
  IF \E i \in 1..Len(R.variables) : R.variables[i].key = key THEN R
  ELSE [R EXCEPT !.variables = Append(@, [key |-> key, sensitive |-> sensitive])]

\* The document of each frame: a text input #q, a password input #p with
\* name "pwd", a button #b; the document itself scrolls.
Selector(el) == << "#" \o el >>
IsSensitive(el) == el = "p"
VarKey(el) == "pwd"

\* _handleInputForElement
handleInputForElement(R, f, el, rawValue, ev) ==
  LET R1 == IF IsSensitive(el) THEN addVariable(R, VarKey(el), TRUE) ELSE R
      value == IF IsSensitive(el) THEN "{" \o VarKey(el) \o "}" ELSE rawValue
      last == R1.lastFill.step
      sameRef == last # 0 /\ R1.obj[last].ref = el
      sameSelector == last # 0 /\ R1.obj[last].sel # <<>>
                        /\ R1.obj[last].sel = Selector(el)
      within == R1.lastFill.fresh
  IN IF (sameRef \/ sameSelector) /\ within
     THEN enqueueForUpsert(
            [R1 EXCEPT !.obj[last].val = value, !.lastFill.fresh = TRUE], last)
     ELSE [pushStep(R1, f, mkStep("fill", Selector(el), value, el, ev))
             EXCEPT !.lastFill = [step |-> NextId(R1, f), fresh |-> TRUE]]

\* _onClick (no checkbox, overlay or target=_blank link in the document)
onClick(R, f, el, detail, ev) ==
  LET click == mkStep("click", Selector(el), "", "", ev)
  IN IF detail >= 2
     THEN pushStep([R EXCEPT !.pendingClickTimer = FALSE, !.pendingClick = NoStep],
                   f, mkStep("dblclick", Selector(el), "", "", ev))
     ELSE LET R1 == IF R.pendingClickTimer /\ R.pendingClick # NoStep
                    THEN pushStep(R, f, R.pendingClick) ELSE R
          IN [R1 EXCEPT !.pendingClick = click, !.pendingClickTimer = TRUE]

\* the 300 ms callback of _onClick
pendingClickExpired(R, f) ==
  LET R1 == IF R.pendingClick # NoStep THEN pushStep(R, f, R.pendingClick)
            ELSE R
  IN [R1 EXCEPT !.pendingClick = NoStep, !.pendingClickTimer = FALSE]

\* the merge-or-emit of a pending scroll, shared by the 350 ms callback of
\* _onScroll and by _finalizePendingScroll
commitScroll(R, f) ==
  IF R.scrollPending = NoScroll THEN R
  ELSE LET p == R.scrollPending
           R1 == [R EXCEPT !.scrollPending = NoScroll]
           last == IF R.steps = <<>> THEN 0 ELSE R.steps[Len(R.steps)]
           sameDoc == p.isDoc /\ R.obj[last].sel = <<>>
           sameEl == ~p.isDoc /\ R.obj[last].sel # <<>> /\ R.obj[last].sel = p.sel
       IN IF last # 0 /\ R.obj[last].type = "scroll" /\ (sameDoc \/ sameEl)
          THEN [R1 EXCEPT !.obj[last].val = p.off]
          ELSE pushStep(R1, f, mkStep("scroll", p.sel, p.off, "", p.ev))

finalizePendingScroll(R, f) == commitScroll(R, f)

\* _finalizePendingInput: _recordingRef holds the ref string of _getElRef,
\* never an element, so the instanceof test fails and no value is re-read.
finalizePendingInput(R) == [R EXCEPT !.lastFill = NoFill]

\* faulty variant: _detach leaves the listeners registered
detachKeepsListeners(R, f) ==
  LET R1 == [R EXCEPT !.batchTimer = FALSE, !.scrollTimer = FALSE]
      R2 == IF R1.pendingClickTimer /\ R1.pendingClick # NoStep
            THEN pushStep(R1, f, R1.pendingClick) ELSE R1
  IN [R2 EXCEPT !.pendingClickTimer = FALSE, !.pendingClick = NoStep]

\* _detach: listeners off, timers cleared, then a pending click is pushed
detach(R, f) ==
  LET R1 == [R EXCEPT !.attached = FALSE, !.batchTimer = FALSE,
                      !.scrollTimer = FALSE]
      R2 == IF R1.pendingClickTimer /\ R1.pendingClick # NoStep
            THEN pushStep(R1, f, R1.pendingClick) ELSE R1
  IN [R2 EXCEPT !.pendingClickTimer = FALSE, !.pendingClick = NoStep]

\* _attach
attach(R) == [R EXCEPT !.attached = TRUE]

\* _reset: a new sessionBuffer; batch, timers and pending state are kept
reset(R) == [R EXCEPT !.steps = <<>>, !.variables = <<>>, !.lastFill = NoFill]

\* ContentRecorder.resume
recResume(R) ==
  IF ~R.isPaused THEN R
  ELSE attach([R EXCEPT !.isRecording = TRUE, !.isPaused = FALSE])

\* faulty variant: every start begins a new session
recStartAlwaysResets(R) ==
  attach([reset(R) EXCEPT !.isRecording = TRUE, !.isPaused = FALSE])

\* ContentRecorder.start
recStart(R) ==
  IF R.isRecording /\ ~R.isPaused THEN R
  ELSE IF R.isPaused THEN recResume(R)
  ELSE attach([reset(R) EXCEPT !.isRecording = TRUE, !.isPaused = FALSE])

\* ContentRecorder.pause
recPause(R, f) ==
  IF ~R.isRecording \/ R.isPaused THEN R
  ELSE LET R1 == finalizePendingScroll(finalizePendingInput(R), f)
           R2 == flush(R1, FALSE)
           R3 == [R2 EXCEPT !.batchTimer = FALSE, !.scrollTimer = FALSE,
                            !.isPaused = TRUE]
       IN detach(R3, f)

\* faulty variant: the reply's ack is that of the variables send alone
stopEndAckOfVariables(R, f, varsAck) ==
  LET R1 == detach(R, f)
  IN [R1 EXCEPT !.lastFill = NoFill, !.steps = <<>>, !.stopPc = "none",
                !.reply = "none", !.stepsAck = TRUE, !.stepsCount = 0,
                !.varsCount = 0,
                !.outBg = Append(@, StopReplyMsg(varsAck, R.stepsCount, R.varsCount))]

\* ContentRecorder.stop, steps 6 and 7 and the reply
stopEnd(R, f, varsAck) ==
  LET R1 == detach(R, f)
  IN [R1 EXCEPT !.lastFill = NoFill, !.steps = <<>>, !.stopPc = "none",
                !.reply = "none", !.stepsAck = TRUE, !.stepsCount = 0,
                !.varsCount = 0,
                !.outBg = Append(@, StopReplyMsg(R.stepsAck /\ varsAck,
                                                 R.stepsCount, R.varsCount))]

\* ContentRecorder.stop, step 5: the variables are sent and awaited
stopVariables(R, f) ==
  IF Len(R.variables) > 0
  THEN [R EXCEPT !.varsCount = Len(R.variables), !.stopPc = "awaitVars",
                 !.reply = "none",
                 !.outBg = Append(@, VarsMsg(R.variables, TRUE))]
  ELSE stopEnd([R EXCEPT !.varsCount = 0], f, TRUE)

\* faulty variant: step 4, the awaited flush, is left out
recStopWithoutFlush(R, f) ==
  IF ~R.isRecording THEN [R EXCEPT !.outBg = Append(@, StopReplyMsg(TRUE, 0, 0))]
  ELSE LET R1 == finalizePendingInput([R EXCEPT !.isRecording = FALSE])
           R2 == finalizePendingScroll(R1, f)
       IN stopVariables([R2 EXCEPT !.batchTimer = FALSE, !.scrollTimer = FALSE,
                                   !.stepsCount = Len(R2.batch),
                                   !.stepsAck = TRUE], f)

\* ContentRecorder.stop, steps 1 to 4, up to the first await
recStop(R, f) ==
  IF ~R.isRecording THEN [R EXCEPT !.outBg = Append(@, StopReplyMsg(TRUE, 0, 0))]
  ELSE LET R1 == finalizePendingInput([R EXCEPT !.isRecording = FALSE])
           R2 == finalizePendingScroll(R1, f)
           R3 == [R2 EXCEPT !.batchTimer = FALSE, !.scrollTimer = FALSE,
                            !.stepsCount = Len(R2.batch)]
       IN IF Len(R3.batch) > 0
          THEN [flush(R3, TRUE) EXCEPT !.stopPc = "awaitSteps", !.reply = "none"]
          ELSE stopVariables([R3 EXCEPT !.stepsAck = TRUE], f)

\* The windows that may post to the top window: the window of the iframe #f,
\* whose src is of the document's origin, the window of the iframe #g, whose
\* src is of another origin, the window of an iframe n of the document in #f
\* (same origin), and w, a window that is not the contentWindow of any
\* iframe.  A message event has the origin of the
\* document in the sending window: the top document's, "null", or another.
IFrames == {"f", "g"}
NestedFrames == {"n"}
Windows == IFrames \cup NestedFrames \cup {"w"}
SelfOrigin == "self"
Origins == {SelfOrigin, "null", "other"}
iframeSameOrigin(frameEl) == frameEl = "f"
FrameSel(frameEl) == "#" \o frameEl
FrameSelector == FrameSel("f")

\* faulty variant: the source of the message is not looked at
authorizedAnySource(source, origin) ==
  ~(iframeSameOrigin(source) /\ origin # SelfOrigin /\ origin # "null")

\* _onWindowMessage, the checks of source and origin
authorized(source, origin) ==
  /\ source \in IFrames
  /\ ~(iframeSameOrigin(source) /\ origin # SelfOrigin /\ origin # "null")

\* faulty variant: the Step is pushed with the selector it came with
onWindowMessageAsSent(R, source, origin, step) ==
  IF ~authorized(source, origin) THEN R ELSE pushStep(R, "top", step)

\* _onWindowMessage, for a message of type rr_iframe_event with a Step
onWindowMessage(R, source, origin, step) ==
  IF ~authorized(source, origin) THEN R
  ELSE LET composite == <<FrameSel(source)>> \o step.sel
           s == IF step.sel # <<>>
                THEN [step EXCEPT !.sel = composite,
                                  !.cand = <<[type |-> "css", value |-> composite]>> \o @]
                ELSE step
       IN pushStep(R, "top", s)

\* faulty variant: a pending position is kept, only the timer is re-armed
onScrollKeepsPending(R, isDoc, sel, off, ev) ==
  IF R.scrollPending # NoScroll THEN [R EXCEPT !.scrollTimer = TRUE]
  ELSE [R EXCEPT !.scrollPending = [isDoc |-> isDoc, sel |-> sel, off |-> off,
                                    ev |-> ev],
                 !.scrollTimer = TRUE]

\* _onScroll: the latest position replaces the pending one, the 350 ms timer
\* is re-armed
onScroll(R, isDoc, sel, off, ev) ==
  [R EXCEPT !.scrollPending = [isDoc |-> isDoc, sel |-> sel, off |-> off, ev |-> ev],
            !.scrollTimer = TRUE]

\* the 350 ms callback of _onScroll
scrollExpired(R, f) == commitScroll([R EXCEPT !.scrollTimer = FALSE], f)

\* the 100 ms callback of _pushStep and _enqueueForUpsert
batchExpired(R) == flush([R EXCEPT !.batchTimer = FALSE], FALSE)

\* _onKeyDown, for Enter pressed in an editable element
onKeyDown(R, f, el, ev) == pushStep(R, f, mkStep("key", Selector(el), "Enter", "", ev))

\* A keydown event e = [key, ctrlKey, shiftKey, repeat, el]
isEditable(el) == el \in {"q", "p"}

\* _formatKeysCombo (norm: 'escape' is 'Esc', a key of one character is
\* upper-cased, any other name is kept)
norm(key) == CASE key = "Escape" -> "Esc" [] key = "a" -> "A" [] OTHER -> key
formatKeysCombo(e, mainKey) ==
  (IF e.ctrlKey THEN "Ctrl+" ELSE "") \o (IF e.shiftKey THEN "Shift+" ELSE "")
    \o norm(mainKey)

\* _onKeyDown, whole (the _pressed set of held modifiers is written here and
\* read nowhere)
keyDown(R, f, e, ev) ==
  IF ~R.isRecording \/ R.isPaused THEN R
  ELSE IF e.repeat THEN R
  ELSE IF isEditable(e.el) /\ e.key = "Enter"
  THEN pushStep(R, f, mkStep("key", Selector(e.el), formatKeysCombo(e, "Enter"), "", ev))
  ELSE IF e.key \in {"Enter", "Escape", "Tab"} \/ e.ctrlKey \/ e.shiftKey
  THEN pushStep(R, f, mkStep("key", <<>>, formatKeysCombo(e, e.key), "", ev))
  ELSE R

\* _onChange, for a checkbox: a fill Step with the checked state, outside the
\* debounce of lastFill
onChange(R, f, el, checked, ev) ==
  pushStep(R, f, mkStep("fill", Selector(el), checked, el, ev))

\* _onChange, for a file input: a variable that is not sensitive and a fill
\* Step with the placeholder of its key
onChangeFile(R, f, el, ev) ==
  pushStep(addVariable(R, VarKey(el), FALSE), f,
           mkStep("fill", Selector(el), "{" \o VarKey(el) \o "}", "", ev))

\* A DOM event e = [kind, el, val, detail] in a frame: a listener _detach has
\* removed is not called, and each of _onClick, _onInput, _onDocInput,
\* _onChange, _onScroll and _onKeyDown returns at once unless the recorder is
\* recording and not paused.
onDomEvent(R, f, e, ev) ==
  IF ~R.attached THEN R
  ELSE IF ~R.isRecording \/ R.isPaused THEN R
  ELSE CASE e.kind = "input" -> handleInputForElement(R, f, e.el, e.val, ev)
         [] e.kind = "click" -> onClick(R, f, e.el, e.detail, ev)
         [] e.kind = "scroll" -> onScroll(R, TRUE, <<>>, e.val, ev)
         [] e.kind = "keydown" -> onKeyDown(R, f, e.el, ev)
         [] e.kind = "change" -> onChange(R, f, e.el, e.val, ev)

\* ------------------------------------------------------------------ state
VARIABLES
  session,    \* RecordingSessionManager.state
  flows,      \* the Flow objects created so far; session.flow refers into it
  saved,      \* the saveFlow calls so far: [flow, by, steps, variables]
  bgMint,     \* ids minted by the background so far
  rec,        \* rec[f]: the ContentRecorder of frame f in tab 1
  ctl,        \* ctl[f]: control messages on their way to frame f
  startPc,    \* startPc[c]: where call c of RecorderManager.start stands
  startFlow,  \* startFlow[c]: the local `flow` of call c
  stopPc,     \* where the running RecorderManager.stop stands
  stopSid,    \* the sessionId beginStopping returned to it
  ackRes,     \* ackRes[t]: how sendStopWithAck(t) resolved
  ret,        \* the value the last finished RecorderManager call returned
  calls,      \* RecorderManager calls so far: [start, stop, pause, resume]
  events,     \* DOM events produced so far
  frames,     \* the frames of tab 1 whose recorder is part of the model
  appends,    \* content messages of recorders that are not part of the model
  owed,       \* history: ev -> the Step object as the recorders last left it
  snapTop,    \* history: owed when the top recorder received STOP
  snapChild,  \* history: owed when RecorderManager.stop began
  unclean,    \* history: a barrier wait ended by timeout or send error
  lastMsg,    \* history: the last such content message, the status it met
              \* and the steps (for a variables message: the variables) of
              \* the live Flow before it
  arrival,    \* history: arrival[r]: ids in the order each first came to Flow r
  snapPause,  \* history: what the top recorder had to send when it received PAUSE
  whilePaused,\* history: the events that came to the top frame while its
              \* recorder was paused
  winMsg,     \* history: source and origin of the last message event in the
              \* top window
  page,       \* page[f]: what the runs of recorder.js have left in the
              \* document of frame f: the install flag on its window, the
              \* runtime message listeners registered; and, as history, the
              \* number of runs and the events seen when the last one began
  dom,        \* dom[f][el]: the value of input element el in the document of
              \* frame f
  legacy      \* the module variables of the earlier background listener:
              \* currentRecording (its flow apart), lastClickIdx,
              \* lastClickTime, lastNavTaggedAt; with them the clock (now) and,
              \* as history, the Steps its recorder has emitted since it
              \* began (sent) and their number since ever (n)

vars == <<session, flows, saved, bgMint, rec, ctl, startPc, startFlow, stopPc,
          stopSid, ackRes, ret, calls, events, frames, appends, owed, snapTop,
          snapChild, unclean, lastMsg, arrival, snapPause, whilePaused, winMsg,
          page, dom, legacy>>

sessVars == <<session, flows, saved, bgMint, arrival>>
startVars == <<startPc, startFlow>>
stopVars == <<stopPc, stopSid, ackRes>>
coordVars == <<sessVars, startVars, stopVars, ret, calls>>
envVars == <<events, frames, appends, lastMsg, whilePaused, winMsg, page, dom,
            legacy>>
snapVars == <<snapTop, snapChild, unclean, snapPause>>

Callers == {1, 2}
NoRet == [op |-> "none", success |-> FALSE, error |-> "", flow |-> 0]
Ret(op, success, error, flow) ==
  [op |-> op, success |-> success, error |-> error, flow |-> flow]
NoSnap == [sid |-> 0, steps |-> <<>>, batchTimer |-> FALSE, fresh |-> FALSE]
NoMsg == [msg |-> StepsMsg(<<>>, FALSE), status |-> "idle", before |-> <<>>]

\* the input elements of a document: the text input #q, the password input #p
InputEls == {"q", "p"}

\* ------------------------------------ the earlier background listener
\* Its module state.  currentRecording is null (FALSE) or {tabId, flow}, the
\* tab being OriginTab; flow is undefined or a Flow, of which the steps are
\* kept: [id, type, nav], nav standing for after.waitForNavigation.
\* lastClickIdx is null (-1) or an index counted from 0.  Times are in ms;
\* Date.now() is far from 0, where lastClickTime and lastNavTaggedAt begin.
Epoch == 10000
MaxClock == 5500
MaxLegacySteps == 2
NoRecording ==
  [currentRecording |-> FALSE, flow |-> [defined |-> FALSE, steps |-> <<>>],
   lastClickIdx |-> -1, lastClickTime |-> 0, lastNavTaggedAt |-> 0,
   now |-> Epoch, sent |-> <<>>, n |-> 0]

\* the rr_recorder_event handler, for a payload [kind, flow, step]
onRecorderEvent(L, payload) ==
  IF ~L.currentRecording THEN L
  ELSE CASE payload.kind = "start" -> [L EXCEPT !.flow = payload.flow]
         [] payload.kind = "step" ->
              IF payload.step.type \in {"click", "dblclick"}
              THEN [L EXCEPT !.lastClickIdx = IF L.flow.defined
                                              THEN Len(L.flow.steps) ELSE 0,
                             !.lastClickTime = L.now]
              ELSE L
         [] payload.kind = "stop" ->
              IF payload.flow.defined THEN [L EXCEPT !.flow = payload.flow] ELSE L
         [] OTHER -> L

\* the chrome.tabs.onUpdated listener, for changeInfo = [url, loading]: is
\* changeInfo.url a string, is changeInfo.status 'loading'
onUpdated(L, tabId, changeInfo) ==
  IF ~L.currentRecording \/ tabId # OriginTab THEN L
  ELSE IF ~L.flow.defined THEN L
  ELSE IF ~changeInfo.url /\ ~changeInfo.loading THEN L
  ELSE IF L.lastClickIdx = -1 THEN L
  ELSE IF L.now - L.lastClickTime > 5000 THEN L
  ELSE IF L.now - L.lastNavTaggedAt < 500 THEN L
  ELSE IF L.lastClickIdx + 1 > Len(L.flow.steps) THEN L
  ELSE IF L.flow.steps[L.lastClickIdx + 1].nav THEN L
  ELSE [L EXCEPT !.flow.steps[L.lastClickIdx + 1].nav = TRUE,
                 !.lastNavTaggedAt = L.now]

\* a document in which recorder.js has not run, and one in which it has
NoScript == [installed |-> FALSE, listeners |-> 0, runs |-> 0, lastRunAt |-> 0]
Injected == [installed |-> TRUE, listeners |-> 1, runs |-> 1, lastRunAt |-> 0]

\* faulty variant: the install flag is not looked at
runScriptAgain(P, now) ==
  [installed |-> TRUE, listeners |-> P.listeners + 1, runs |-> P.runs + 1,
   lastRunAt |-> now]

\* recorder.js, run in a document (chrome.scripting.executeScript in the
\* isolated world): it returns at once if the flag is set; else it sets the
\* flag and registers its chrome.runtime.onMessage listener, whose
\* getRecorder makes the ContentRecorder of the closure when first called
runScript(P, now) ==
  IF P.installed THEN [P EXCEPT !.runs = @ + 1, !.lastRunAt = now]
  ELSE [installed |-> TRUE, listeners |-> P.listeners + 1, runs |-> P.runs + 1,
        lastRunAt |-> now]

\* The specifications begin with the script injected in every document
\* (SpecInject: in none), a new ContentRecorder behind each listener.
InitState(fr, script) ==
  /\ page = [f \in Frames |-> script]
  /\ dom = [f \in Frames |-> [el \in InputEls |-> ""]]
  /\ legacy = NoRecording
  /\ session = InitialSession
  /\ flows = <<>>
  /\ saved = <<>>
  /\ bgMint = 0
  /\ rec = [f \in Frames |-> NewRecorder]
  /\ ctl = [f \in Frames |-> <<>>]
  /\ startPc = [c \in Callers |-> "none"]
  /\ startFlow = [c \in Callers |-> 0]
  /\ stopPc = "none"
  /\ stopSid = 0
  /\ ackRes = [t \in Tabs |-> "none"]
  /\ ret = NoRet
  /\ calls = [start |-> 0, stop |-> 0, pause |-> 0, resume |-> 0]
  /\ events = 0
  /\ frames = fr
  /\ appends = 0
  /\ owed = <<>>
  /\ snapTop = NoSnap
  /\ snapChild = NoSnap
  /\ unclean = FALSE
  /\ lastMsg = NoMsg
  /\ arrival = <<>>
  /\ snapPause = NoSnap
  /\ whilePaused = {}
  /\ winMsg = [source |-> "", origin |-> ""]

InitWith(fr) == InitState(fr, Injected)

\* ---------------------------------------------------------------- history
\* The Step objects recorder R holds: its objects, the stashed click and the
\* pending scroll (as the Step it would become).
Held(R) ==
  {R.obj[i] : i \in DOMAIN R.obj}
    \cup (IF R.pendingClick # NoStep THEN {R.pendingClick} ELSE {})
    \cup (IF R.scrollPending # NoScroll
          THEN {mkStep("scroll", R.scrollPending.sel, R.scrollPending.off, "",
                       R.scrollPending.ev)}
          ELSE {})

NoEntry ==
  [frame |-> "", type |-> "none", sel |-> <<>>, val |-> "", pushed |-> FALSE,
   paused |-> FALSE]

\* paused: the coordinator has been paused, or the recorder has received
\* PAUSE, since the Step was created or last changed
Entry(f, h, old) ==
  LET e == [frame |-> f, type |-> h.type, sel |-> h.sel, val |-> h.val,
            pushed |-> h.id # 0, paused |-> session.status = "paused"]
  IN IF [e EXCEPT !.paused = old.paused] = old THEN old ELSE e

\* owed after frame f's recorder became R: what it holds is owed as it now
\* is, what it pushed earlier stays owed, what it dropped unpushed is not.
Owe(o, f, R) ==
  LET mine == {h \in Held(R) : h.ev # 0 /\ (h.ev \in DOMAIN o => o[h.ev].frame = f)}
      kept == {e \in DOMAIN o : o[e].frame # f \/ o[e].pushed}
      evs == kept \cup {h.ev : h \in mine}
  IN [e \in evs |->
        IF \E h \in mine : h.ev = e
        THEN LET h == CHOOSE x \in mine : x.ev = e
             IN Entry(f, h, IF e \in DOMAIN o THEN o[e] ELSE NoEntry)
        ELSE o[e]]

MarkPaused(o, f) ==
  [e \in DOMAIN o |-> IF o[e].frame = f THEN [o[e] EXCEPT !.paused = TRUE] ELSE o[e]]
MarkAllPaused(o) == [e \in DOMAIN o |-> [o[e] EXCEPT !.paused = TRUE]]

\* the entries of what recorder R has yet to send: the Steps of its batch,
\* the fill still in its debounce window, the stashed click, the pending scroll
ToSend(o, R) ==
  LET evs == {R.obj[i].ev : i \in Range(R.batch)}
               \cup (IF R.lastFill.step # 0 /\ R.lastFill.fresh
                     THEN {R.obj[R.lastFill.step].ev} ELSE {})
               \cup {R.pendingClick.ev, R.scrollPending.ev}
  IN [e \in evs \cap DOMAIN o |-> o[e]]

TopEntries(o) == [e \in {x \in DOMAIN o : o[x].frame = "top"} |-> o[e]]
ChildEntries(o) == [e \in {x \in DOMAIN o : o[x].frame = "child"} |-> o[e]]

\* the ids of a batch in the order they first come to a Flow that has seen
\* `seen`; a Step without id comes under the id minted for it
RECURSIVE Arrive(_, _, _)
Arrive(seen, incoming, mint) ==
  IF incoming = <<>> THEN seen
  ELSE LET id == IF Head(incoming).id = 0 THEN mint ELSE Head(incoming).id
           mint2 == IF Head(incoming).id = 0 THEN mint + 1 ELSE mint
       IN Arrive(IF id \in Range(seen) THEN seen ELSE Append(seen, id),
                 Tail(incoming), mint2)

\* frame f's recorder becomes R
RecBecomes(f, R) ==
  /\ rec' = [rec EXCEPT ![f] = Collect(R)]
  /\ owed' = Owe(owed, f, R)

\* ------------------------------------------------------- the user's events
InputValues(el) == IF el = "q" THEN {"a", "ab"} ELSE {"s"}
ScrollOffsets == {"10", "20"}

Listening(f) ==
  f \in frames /\ rec[f].attached /\ rec[f].isRecording /\ ~rec[f].isPaused

InputEvent(f, el, v) ==
  /\ Listening(f)
  /\ events' = events + 1
  /\ RecBecomes(f, handleInputForElement(rec[f], f, el, v, events + 1))
  /\ dom' = [dom EXCEPT ![f][el] = v]
  /\ UNCHANGED <<coordVars, ctl, frames, appends, lastMsg, whilePaused, winMsg, page,
                 legacy, snapVars>>

Input(f, el, v) == events < MaxEvents /\ InputEvent(f, el, v)

\* an input event of a user who never rests for 800 ms
Types(f, el, v) == events < MaxInputs /\ InputEvent(f, el, v)

Click(f, detail) ==
  /\ Listening(f) /\ events < MaxEvents
  /\ events' = events + 1
  /\ RecBecomes(f, onClick(rec[f], f, "b", detail, events + 1))
  /\ UNCHANGED <<coordVars, ctl, frames, appends, lastMsg, whilePaused, winMsg, page, dom,
                 legacy, snapVars>>

Scroll(f, off) ==
  /\ Listening(f) /\ events < MaxEvents
  /\ events' = events + 1
  /\ RecBecomes(f, onScroll(rec[f], TRUE, <<>>, off, events + 1))
  /\ UNCHANGED <<coordVars, ctl, frames, appends, lastMsg, whilePaused, winMsg, page, dom,
                 legacy, snapVars>>

\* a DOM event of any kind, whatever the state of the frame's recorder
DomEvent(f, e) ==
  /\ f \in frames /\ events < MaxEvents
  /\ events' = events + 1
  /\ RecBecomes(f, onDomEvent(rec[f], f, e, events + 1))
  /\ whilePaused' = IF f = "top" /\ rec[f].isPaused
                    THEN whilePaused \cup {events + 1} ELSE whilePaused
  /\ dom' = IF e.kind = "input" THEN [dom EXCEPT ![f][e.el] = e.val] ELSE dom
  /\ UNCHANGED <<coordVars, ctl, frames, appends, lastMsg, winMsg, page, legacy, snapVars>>

Ev(kind, el, val, detail) == [kind |-> kind, el |-> el, val |-> val, detail |-> detail]
DomEvents ==
  {Ev("input", "q", "a", 0), Ev("input", "p", "s", 0),
   Ev("click", "b", "", 1), Ev("click", "b", "", 2),
   Ev("scroll", "", "10", 0), Ev("keydown", "q", "", 0),
   Ev("change", "k", "true", 0)}

\* the recorder of a child frame, itself outside the model, posts a click Step
\* to the top window
ChildFramePosts ==
  /\ "child" \notin frames /\ events < MaxEvents
  /\ events' = events + 1
  /\ RecBecomes("child", pushStep([rec["child"] EXCEPT !.idc = events], "child",
                                  mkStep("click", Selector("b"), "", "", events + 1)))
  /\ UNCHANGED <<coordVars, ctl, frames, appends, lastMsg, whilePaused, winMsg, page, dom,
                 legacy, snapVars>>

\* the value of input el changes while a composition (IME) is under way: the
\* input event has isComposing = true and _onInput and _onDocInput return
\* at once
Composes(f, el, v) ==
  /\ f \in frames /\ events < MaxEvents /\ dom[f][el] # v
  /\ events' = events + 1
  /\ dom' = [dom EXCEPT ![f][el] = v]
  /\ UNCHANGED <<coordVars, ctl, rec, owed, frames, appends, lastMsg, whilePaused,
                 winMsg, page, legacy, snapVars>>

\* the user presses a key while the text input #q or the button #b has focus
KeyNames == {"Enter", "Escape", "a"}
KeyEvents ==
  [key : KeyNames, ctrlKey : BOOLEAN, shiftKey : BOOLEAN, repeat : BOOLEAN,
   el : {"q", "b"}]
KeyDown(f, e) ==
  /\ f \in frames /\ rec[f].attached /\ events < MaxEvents
  /\ events' = events + 1
  /\ RecBecomes(f, keyDown(rec[f], f, e, events + 1))
  /\ UNCHANGED <<coordVars, ctl, frames, appends, lastMsg, whilePaused, winMsg, page,
                 dom, legacy, snapVars>>

\* the user chooses a file in the file input #u, whose name is that of the
\* password input #p
FileChosen(f) ==
  /\ Listening(f) /\ events < MaxEvents
  /\ events' = events + 1
  /\ RecBecomes(f, onChangeFile(rec[f], f, "u", events + 1))
  /\ UNCHANGED <<coordVars, ctl, frames, appends, lastMsg, whilePaused, winMsg, page, dom,
                 legacy, snapVars>>

\* The n-th scroll event of a run finds its source at offset OffsetOf(n); the
\* sources are the document and the container #c.
OffsetOf(n) == <<"10", "20", "30", "40", "50">>[n]
ScrollSources == {[isDoc |-> TRUE, sel |-> <<>>], [isDoc |-> FALSE, sel |-> Selector("c")]}

ScrollEvent(f, src) ==
  /\ Listening(f) /\ events < MaxScrolls
  /\ events' = events + 1
  /\ RecBecomes(f, onScroll(rec[f], src.isDoc, src.sel, OffsetOf(events + 1),
                            events + 1))
  /\ UNCHANGED <<coordVars, ctl, frames, appends, lastMsg, whilePaused, winMsg, page, dom,
                 legacy, snapVars>>

\* ------------------------------------------------- the recorder's timers
BatchTimerFires(f) ==
  /\ rec[f].batchTimer
  /\ RecBecomes(f, batchExpired(rec[f]))
  /\ UNCHANGED <<coordVars, ctl, envVars, snapVars>>

ScrollTimerFires(f) ==
  /\ rec[f].scrollTimer
  /\ RecBecomes(f, scrollExpired(rec[f], f))
  /\ UNCHANGED <<coordVars, ctl, envVars, snapVars>>

PendingClickTimerFires(f) ==
  /\ rec[f].pendingClickTimer
  /\ RecBecomes(f, pendingClickExpired(rec[f], f))
  /\ UNCHANGED <<coordVars, ctl, envVars, snapVars>>

\* more than 800 ms pass since the last fill
FillWindowElapses(f) ==
  /\ rec[f].lastFill.fresh
  /\ RecBecomes(f, [rec[f] EXCEPT !.lastFill.fresh = FALSE])
  /\ UNCHANGED <<coordVars, ctl, envVars, snapVars>>

\* a message posted by the child frame reaches the top window
WindowMessage ==
  /\ rec["child"].outWin # <<>>
  /\ LET m == Head(rec["child"].outWin)
         R == IF rec["top"].attached
              THEN onWindowMessage(rec["top"], "f", SelfOrigin, m)
              ELSE rec["top"]
     IN /\ rec' = [rec EXCEPT !["top"] = Collect(R),
                              !["child"].outWin = Tail(@)]
        /\ owed' = Owe(owed, "top", R)
        /\ whilePaused' = IF rec["top"].isPaused THEN whilePaused \cup {m.ev}
                          ELSE whilePaused
        /\ winMsg' = [source |-> "f", origin |-> SelfOrigin]
  /\ UNCHANGED <<coordVars, ctl, events, frames, appends, lastMsg, page, dom, legacy, snapVars>>

\* a window posts a message of type rr_iframe_event with a click Step to the
\* top window; the listener is registered while the recorder is attached
PostedMessage(source, origin) ==
  /\ events < MaxEvents
  /\ events' = events + 1
  /\ LET step == [mkStep("click", Selector("b"), "", "", events + 1)
                   EXCEPT !.id = IdBase("child") + events + 1]
     IN RecBecomes("top", IF rec["top"].attached
                          THEN onWindowMessage(rec["top"], source, origin, step)
                          ELSE rec["top"])
  /\ winMsg' = [source |-> source, origin |-> origin]
  /\ UNCHANGED <<coordVars, ctl, frames, appends, lastMsg, whilePaused, page, dom,
                 legacy, snapVars>>

\* ensureRecorderInjected: recorder.js is run in the document of frame f
Inject(f) ==
  /\ page[f].runs < MaxInjects
  /\ page' = [page EXCEPT ![f] = runScript(page[f], events)]
  /\ UNCHANGED <<coordVars, ctl, rec, owed, events, frames, appends, lastMsg,
                 whilePaused, winMsg, dom, legacy, snapVars>>

\* ------------------------------------ the earlier background listener
\* what this listener and its recorder leave alone
notLegacy ==
  <<coordVars, ctl, rec, owed, events, frames, appends, lastMsg, whilePaused,
    winMsg, page, dom, snapVars>>

\* startRecording, up to the sending of the start command
LegacyStart ==
  /\ legacy' = [legacy EXCEPT !.currentRecording = TRUE,
                              !.flow = [defined |-> FALSE, steps |-> <<>>]]
  /\ UNCHANGED notLegacy

\* stopRecording, after its await
LegacyStop ==
  /\ legacy.currentRecording
  /\ legacy' = [legacy EXCEPT !.currentRecording = FALSE]
  /\ UNCHANGED notLegacy

\* The recorder this listener was written for is not part of the sources;
\* its events are the environment's: 'start' with the new Flow, 'step' with
\* each Step as it is recorded, 'stop' with the Flow of the Steps recorded.
LegacyPayload(kind, flow, step) == [kind |-> kind, flow |-> flow, step |-> step]
RecorderStartEvent ==
  /\ legacy' = onRecorderEvent([legacy EXCEPT !.sent = <<>>],
                  LegacyPayload("start", [defined |-> TRUE, steps |-> <<>>], NoStep))
  /\ UNCHANGED notLegacy
RecorderStepEvent(type) ==
  /\ legacy.n < MaxLegacySteps
  /\ LET st == [id |-> legacy.n + 1, type |-> type, nav |-> FALSE]
         L == [legacy EXCEPT !.sent = Append(@, st), !.n = @ + 1]
     IN legacy' = onRecorderEvent(L, LegacyPayload("step",
                    [defined |-> FALSE, steps |-> <<>>], st))
  /\ UNCHANGED notLegacy
RecorderStopEvent ==
  /\ legacy' = onRecorderEvent(legacy, LegacyPayload("stop",
                  [defined |-> TRUE, steps |-> legacy.sent], NoStep))
  /\ UNCHANGED notLegacy

\* chrome.tabs.onUpdated fires for a tab
ChangeInfos == [url : BOOLEAN, loading : BOOLEAN]
TabUpdated(tabId, changeInfo) ==
  /\ legacy' = onUpdated(legacy, tabId, changeInfo)
  /\ UNCHANGED notLegacy

\* time passes
Delays == {500, 5000}
Passes(d) ==
  /\ legacy.now + d <= Epoch + MaxClock
  /\ legacy' = [legacy EXCEPT !.now = @ + d]
  /\ UNCHANGED notLegacy

\* ------------------------------------- control messages reach a recorder
RecvStart(f) ==
  /\ ctl[f] # <<>> /\ Head(ctl[f]).cmd = "start"
  /\ ctl' = [ctl EXCEPT ![f] = Tail(@)]
  /\ RecBecomes(f, recStart(rec[f]))
  /\ UNCHANGED <<coordVars, envVars, snapVars>>

RecvPause(f) ==
  /\ ctl[f] # <<>> /\ Head(ctl[f]).cmd = "pause"
  /\ ctl' = [ctl EXCEPT ![f] = Tail(@)]
  /\ rec' = [rec EXCEPT ![f] = Collect(recPause(rec[f], f))]
  /\ owed' = MarkPaused(Owe(owed, f, recPause(rec[f], f)), f)
  /\ snapPause' = IF f = "top" /\ rec[f].isRecording /\ ~rec[f].isPaused
                  THEN [NoSnap EXCEPT !.sid = session.sessionId,
                                      !.steps = ToSend(owed, rec[f])]
                  ELSE snapPause
  /\ UNCHANGED <<coordVars, envVars, snapTop, snapChild, unclean>>

RecvResume(f) ==
  /\ ctl[f] # <<>> /\ Head(ctl[f]).cmd = "resume"
  /\ ctl' = [ctl EXCEPT ![f] = Tail(@)]
  /\ RecBecomes(f, recResume(rec[f]))
  /\ UNCHANGED <<coordVars, envVars, snapVars>>

\* {action: 'stop', requireAck: true} reaches the main frame
RecvStop ==
  /\ ctl["top"] # <<>> /\ Head(ctl["top"]).cmd = "stop"
  /\ ctl' = [ctl EXCEPT !["top"] = Tail(@)]
  /\ RecBecomes("top", recStop(rec["top"], "top"))
  /\ snapTop' = IF rec["top"].isRecording
                THEN [sid |-> Head(ctl["top"]).sid, steps |-> TopEntries(owed),
                      batchTimer |-> rec["top"].batchTimer,
                      fresh |-> rec["top"].lastFill.fresh]
                ELSE snapTop
  /\ UNCHANGED <<coordVars, envVars, snapChild, unclean, snapPause>>

\* the reply to the send that stop() awaits has come: stop() goes on
StopAfterStepsAck ==
  /\ rec["top"].stopPc = "awaitSteps" /\ rec["top"].reply # "none"
  /\ RecBecomes("top", stopVariables(
        [rec["top"] EXCEPT !.stepsAck = (rec["top"].reply = "ok")], "top"))
  /\ UNCHANGED <<coordVars, ctl, envVars, snapVars>>

StopAfterVarsAck ==
  /\ rec["top"].stopPc = "awaitVars" /\ rec["top"].reply # "none"
  /\ RecBecomes("top", stopEnd(rec["top"], "top", rec["top"].reply = "ok"))
  /\ UNCHANGED <<coordVars, ctl, envVars, snapVars>>

\* a control command is sent to the top frame, whatever its recorder's state
Control(cmd) ==
  /\ calls[cmd] < (CASE cmd = "start" -> MaxStartCalls [] cmd = "stop" -> MaxStopCalls
                     [] cmd = "pause" -> MaxPauses [] cmd = "resume" -> MaxResumes)
  /\ calls' = [calls EXCEPT ![cmd] = @ + 1]
  /\ ctl' = [ctl EXCEPT !["top"] = Append(@, [cmd |-> cmd, sid |-> 0])]
  /\ UNCHANGED <<sessVars, startVars, stopVars, ret, rec, envVars, owed, snapVars>>

\* ------------------------------------------------------- RecorderManager
\* broadcastControlToTab: the command goes to every frame of the tab (fr:
\* the frames of tab 1 that hold a recorder)
broadcastControl(c, fr, tabs, cmd) ==
  [f \in Frames |-> IF OriginTab \in tabs /\ f \in fr
                    THEN Append(c[f], [cmd |-> cmd, sid |-> 0]) ELSE c[f]]

\* RecorderManager.start, up to `await chrome.tabs.query`
StartCall(c) ==
  /\ startPc[c] = "none" /\ calls.start < MaxStartCalls
  /\ session.status = "idle" => Len(flows) < MaxSessions
  /\ calls' = [calls EXCEPT !.start = @ + 1]
  /\ IF session.status # "idle"
     THEN /\ ret' = Ret("start", FALSE, "Recording already active", 0)
          /\ UNCHANGED startPc
     ELSE /\ startPc' = [startPc EXCEPT ![c] = "query"]
          /\ UNCHANGED ret
  /\ UNCHANGED <<sessVars, startFlow, stopVars, rec, ctl, envVars, owed, snapVars>>

\* RecorderManager.start, called once more when a session has been stopped
StartAgain(c) ==
  /\ startPc[c] = "none" /\ calls.start < MaxStartCalls
  /\ session.status = "idle" /\ flows # <<>> /\ Len(flows) <= MaxSessions
  /\ calls' = [calls EXCEPT !.start = @ + 1]
  /\ startPc' = [startPc EXCEPT ![c] = "query"]
  /\ UNCHANGED <<sessVars, startFlow, stopVars, ret, rec, ctl, envVars, owed, snapVars>>

\* ... the active tab is known: createInitialFlow, startSession, then
\* `await ensureRecorderInjected`
StartSession(c, found) ==
  /\ startPc[c] = "query"
  /\ IF ~found
     THEN /\ ret' = Ret("start", FALSE, "Active tab not found", 0)
          /\ startPc' = [startPc EXCEPT ![c] = "none"]
          /\ UNCHANGED <<session, flows, arrival, startFlow, owed>>
     ELSE /\ flows' = Append(flows, EmptyFlow)
          /\ arrival' = Append(arrival, <<>>)
          /\ session' = startSession(Len(flows) + 1, OriginTab, Len(flows) + 1)
          /\ startFlow' = [startFlow EXCEPT ![c] = Len(flows) + 1]
          /\ startPc' = [startPc EXCEPT ![c] = "inject"]
          /\ owed' = <<>>
          /\ UNCHANGED ret
  /\ UNCHANGED <<saved, bgMint, stopVars, calls, rec, ctl, envVars, snapVars>>

\* ... ensureRecorderInjected rejects (chrome.scripting.executeScript on a
\* page that takes no scripts): start has no try around its awaits, so the
\* call ends there, with the exception for its caller
StartInjectFails(c) ==
  /\ startPc[c] = "inject"
  /\ startPc' = [startPc EXCEPT ![c] = "none"]
  /\ ret' = Ret("start", FALSE, "Cannot access contents of the page", 0)
  /\ UNCHANGED <<sessVars, startFlow, stopVars, calls, rec, ctl, envVars, owed,
                 snapVars>>

\* ... the recorder is injected: START is sent, `await broadcastControlToTab`
StartSend(c) ==
  /\ startPc[c] = "inject"
  /\ ctl' = broadcastControl(ctl, frames, {OriginTab}, "start")
  /\ startPc' = [startPc EXCEPT ![c] = "sent"]
  /\ UNCHANGED <<sessVars, startFlow, stopVars, ret, calls, rec, envVars, owed,
                 snapVars>>

\* addNavigationStep (flow-builder): a navigate Step with a new id is added to
\* the Flow object
addNavigationStep(flow, mint) ==
  [flow EXCEPT !.steps = Append(@, [mkStep("navigate", <<>>, "url", "", 0)
                                      EXCEPT !.id = mint])]

Snapshot(ref, by, flow) ==
  [flow |-> ref, by |-> by, steps |-> flow.steps, variables |-> flow.variables]

\* ... START is answered: addActiveTab, the first Step, saveFlow, return
StartFinish(c, hasUrl) ==
  /\ startPc[c] = "sent"
  /\ session' = addActiveTab(session, OriginTab)
  /\ LET ref == startFlow[c]
         fl == IF hasUrl THEN addNavigationStep(flows[ref], MintBase + bgMint)
               ELSE flows[ref]
     IN /\ flows' = [flows EXCEPT ![ref] = fl]
        /\ saved' = IF hasUrl THEN Append(saved, Snapshot(ref, "start", fl)) ELSE saved
        /\ bgMint' = IF hasUrl THEN bgMint + 1 ELSE bgMint
        /\ arrival' = IF hasUrl
                      THEN [arrival EXCEPT ![ref] = Append(@, MintBase + bgMint)]
                      ELSE arrival
        /\ ret' = Ret("start", TRUE, "", ref)
  /\ startPc' = [startPc EXCEPT ![c] = "none"]
  /\ UNCHANGED <<startFlow, stopVars, calls, rec, ctl, envVars, owed, snapVars>>

\* RecorderManager.pause
PauseCall ==
  /\ calls.pause < MaxPauses
  /\ calls' = [calls EXCEPT !.pause = @ + 1]
  /\ IF session.status # "recording"
     THEN /\ ret' = Ret("pause", FALSE, "Not currently recording", 0)
          /\ UNCHANGED <<session, ctl, owed>>
     ELSE /\ session' = pause(session)
          /\ ctl' = broadcastControl(ctl, frames, session.activeTabs, "pause")
          /\ ret' = Ret("pause", TRUE, "", 0)
          /\ owed' = MarkAllPaused(owed)
  /\ UNCHANGED <<flows, saved, bgMint, arrival, startVars, stopVars, rec, envVars,
                 snapVars>>

\* RecorderManager.resume (a call outside paused only returns an error)
ResumeCall ==
  /\ session.status = "paused"
  /\ session' = resume(session)
  /\ ctl' = broadcastControl(ctl, frames, session.activeTabs, "resume")
  /\ ret' = Ret("resume", TRUE, "", 0)
  /\ UNCHANGED <<flows, saved, bgMint, arrival, startVars, stopVars, calls, rec,
                 envVars, owed, snapVars>>

\* a second tab joins the session (addActiveTab, called as the user moves
\* to another tab while recording)
TabJoins ==
  /\ session.status \in {"recording", "paused"}
  /\ OtherTab \notin session.activeTabs
  /\ session' = addActiveTab(session, OtherTab)
  /\ UNCHANGED <<flows, saved, bgMint, arrival, startVars, stopVars, ret, calls,
                 rec, ctl, envVars, owed, snapVars>>

\* RecorderManager.stop, up to `await Promise.all(tabs.map(sendStopWithAck))`
StopCall ==
  /\ calls.stop < MaxStopCalls
  /\ calls' = [calls EXCEPT !.stop = @ + 1]
  /\ IF session.status = "idle" \/ session.flow = 0
     THEN /\ ret' = Ret("stop", FALSE, "No active recording", 0)
          /\ UNCHANGED <<session, stopVars, ctl, snapChild>>
     ELSE IF session.status = "stopping"
     THEN /\ ret' = Ret("stop", FALSE, "Stop already in progress", 0)
          /\ UNCHANGED <<session, stopVars, ctl, snapChild>>
     ELSE /\ session' = beginStopping(session)
          /\ stopSid' = session.sessionId
          /\ stopPc' = "barrier"
          /\ ackRes' = [t \in Tabs |-> IF t \in session.activeTabs THEN "pending"
                                       ELSE "none"]
          /\ ctl' = IF OriginTab \in session.activeTabs /\ "top" \in frames
                    THEN [ctl EXCEPT !["top"] =
                            Append(@, [cmd |-> "stop", sid |-> session.sessionId])]
                    ELSE ctl
          /\ snapChild' = [NoSnap EXCEPT !.sid = session.sessionId,
                                          !.steps = ChildEntries(owed)]
          /\ UNCHANGED ret
  /\ UNCHANGED <<flows, saved, bgMint, arrival, startVars, rec, envVars, owed,
                 snapTop, unclean, snapPause>>

\* sendStopWithAck: the 3 s timer fires before the tab has answered
StopTimeout(t) ==
  /\ stopPc = "barrier" /\ ackRes[t] = "pending"
  /\ ackRes' = [ackRes EXCEPT ![t] = "timeout"]
  /\ unclean' = TRUE
  /\ UNCHANGED <<sessVars, startVars, stopPc, stopSid, ret, calls, rec, ctl,
                 envVars, owed, snapTop, snapChild, snapPause>>

\* sendStopWithAck: chrome.tabs.sendMessage rejects, the STOP is not delivered
StopSendError(t) ==
  /\ stopPc = "barrier" /\ ackRes[t] = "pending"
  /\ (t = OriginTab /\ "top" \in frames) =>
       /\ ctl["top"] # <<>>
       /\ ctl["top"][Len(ctl["top"])] = [cmd |-> "stop", sid |-> stopSid]
  /\ ackRes' = [ackRes EXCEPT ![t] = "error"]
  /\ ctl' = IF t = OriginTab /\ "top" \in frames
            THEN [ctl EXCEPT !["top"] = SubSeq(@, 1, Len(@) - 1)] ELSE ctl
  /\ unclean' = TRUE
  /\ UNCHANGED <<sessVars, startVars, stopPc, stopSid, ret, calls, rec, envVars,
                 owed, snapTop, snapChild, snapPause>>

\* a tab whose recorder is not part of the model answers STOP
TabReplies(t, ack) ==
  /\ stopPc = "barrier" /\ ackRes[t] = "pending"
  /\ t = OriginTab => "top" \notin frames
  /\ ackRes' = [ackRes EXCEPT ![t] = IF ack THEN "ack" ELSE "nack"]
  /\ UNCHANGED <<sessVars, startVars, stopPc, stopSid, ret, calls, rec, ctl,
                 envVars, owed, snapVars>>

\* the result of RecorderManager.stop: {success: true, flow}
StopReturn(flowRef) == Ret("stop", TRUE, "", flowRef)

\* ... every sendStopWithAck has resolved and the 100 ms grace is over:
\* stopSession, saveFlow, return
StopFinish ==
  /\ stopPc = "barrier"
  /\ \A t \in Tabs : ackRes[t] # "pending"
  /\ session' = stopSession(session)
  /\ saved' = IF session.flow # 0
              THEN Append(saved, Snapshot(session.flow, "stop", flows[session.flow]))
              ELSE saved
  /\ ret' = StopReturn(session.flow)
  /\ stopPc' = "none"
  /\ UNCHANGED <<flows, bgMint, arrival, startVars, stopSid, ackRes, calls, rec,
                 ctl, envVars, owed, snapVars>>

\* ------------------------------- messages of a frame reach the background
\* the content message handler: steps and variables are taken only while
\* canAcceptSteps(); the message is answered {ok: true}
Accepts(s) == canAcceptSteps(s) /\ s.flow # 0

handleContentMessage(s, fl, m, mint) ==
  IF ~Accepts(s) THEN fl
  ELSE [fl EXCEPT ![s.flow] =
          IF m.kind = "steps"
          THEN [@ EXCEPT !.steps = appendSteps(@, m.steps, mint)]
          ELSE [@ EXCEPT !.variables = appendVariables(@, m.variables)]]

Handled(m) ==
  /\ flows' = handleContentMessage(session, flows, m, MintBase + bgMint)
  /\ bgMint' = IF Accepts(session) THEN bgMint + Minted(m.steps) ELSE bgMint
  /\ arrival' = IF Accepts(session)
                THEN [arrival EXCEPT ![session.flow] =
                        Arrive(@, m.steps, MintBase + bgMint)]
                ELSE arrival

BgReceive(f) ==
  /\ rec[f].outBg # <<>>
  /\ LET m == Head(rec[f].outBg)
     IN IF m.kind = "stopReply"
        THEN /\ ackRes' = IF stopPc = "barrier" /\ ackRes[OriginTab] = "pending"
                          THEN [ackRes EXCEPT ![OriginTab] =
                                  IF m.ack THEN "ack" ELSE "nack"]
                          ELSE ackRes
             /\ rec' = [rec EXCEPT ![f].outBg = Tail(@)]
             /\ UNCHANGED <<flows, bgMint, arrival>>
        ELSE /\ Handled(m)
             /\ rec' = [rec EXCEPT ![f].outBg = Tail(@),
                                   ![f].reply = IF m.awaited THEN "ok" ELSE @]
             /\ UNCHANGED ackRes
  /\ UNCHANGED <<session, saved, startVars, stopPc, stopSid, ret, calls, ctl,
                 envVars, owed, snapVars>>

\* _send: chrome.runtime.sendMessage fails (lastError is set, or the call
\* throws): the message is not delivered and the promise resolves to false
SendError(f) ==
  /\ rec[f].outBg # <<>> /\ Head(rec[f].outBg).kind # "stopReply"
  /\ rec' = [rec EXCEPT ![f].outBg = Tail(@),
                        ![f].reply = IF Head(rec[f].outBg).awaited THEN "error" ELSE @]
  /\ UNCHANGED <<coordVars, ctl, envVars, owed, snapVars>>

Met(m) ==
  [msg |-> m, status |-> session.status,
   before |-> IF session.flow = 0 THEN <<>>
              ELSE IF m.kind = "steps" THEN flows[session.flow].steps
              ELSE flows[session.flow].variables]

\* a steps message of a recorder that is not part of the model
StepIds == {0, 1, 2}
StepVals == {"a", "b"}
Batches ==
  UNION {[1..n -> {[mkStep("fill", <<"#q">>, v, "", 0) EXCEPT !.id = i] :
                     i \in StepIds, v \in StepVals}] : n \in 1..MaxBatch}

ContentSteps(batch) ==
  /\ appends < MaxAppends
  /\ appends' = appends + 1
  /\ lastMsg' = Met(StepsMsg(batch, FALSE))
  /\ Handled(StepsMsg(batch, FALSE))
  /\ UNCHANGED <<session, saved, startVars, stopVars, ret, calls, rec, ctl,
                 events, frames, whilePaused, winMsg, page, dom, legacy, owed,
                 snapVars>>

\* a variables message of such a recorder
VarLists ==
  UNION {[1..n -> {[key |-> k, sensitive |-> b] : k \in {"", "pwd", "f"},
                                                  b \in BOOLEAN}] : n \in 1..MaxBatch}

ContentVariables(vs) ==
  /\ appends < MaxAppends
  /\ appends' = appends + 1
  /\ lastMsg' = Met(VarsMsg(vs, FALSE))
  /\ Handled(VarsMsg(vs, FALSE))
  /\ UNCHANGED <<session, saved, startVars, stopVars, ret, calls, rec, ctl,
                 events, frames, whilePaused, winMsg, page, dom, legacy, owed,
                 snapVars>>

\* ---------------------------------------------------- the specifications
\* The steps of a recorder of tab 1
RecNext(f) ==
  \/ \E el \in InputEls : \E v \in InputValues(el) : Input(f, el, v)
  \/ \E d \in {1, 2} : Click(f, d)
  \/ \E off \in ScrollOffsets : Scroll(f, off)
  \/ BatchTimerFires(f)
  \/ ScrollTimerFires(f)
  \/ PendingClickTimerFires(f)
  \/ FillWindowElapses(f)
  \/ RecvStart(f)
  \/ RecvPause(f)
  \/ RecvResume(f)
  \/ BgReceive(f)

\* A page without frames: the top-frame recorder and the coordinator.  One
\* caller makes each call after the previous one has returned, and in a state
\* where the call goes ahead; calls that overlap or fail are the subject of
\* SpecCoord and SpecStarts.
StartReturned == \A c \in Callers : startPc[c] = "none"

Init == InitWith({"top"})
Next ==
  \/ session.status = "idle" /\ StartCall(1)
  \/ StartSession(1, TRUE)
  \/ StartSend(1)
  \/ StartFinish(1, TRUE)
  \/ session.status = "recording" /\ StartReturned /\ PauseCall
  \/ ResumeCall
  \/ session.status \in {"recording", "paused"} /\ StartReturned /\ StopCall
  \/ StopTimeout(OriginTab)
  \/ StopFinish
  \/ RecNext("top")
  \/ RecvStop
  \/ StopAfterStepsAck
  \/ StopAfterVarsAck
Spec == Init /\ [][Next]_vars

\* A page with one iframe: the user acts in the iframe, whose recorder posts
\* its Steps to the top frame.
InitFrames == InitWith(Frames)
NextFrames ==
  \/ session.status = "idle" /\ StartCall(1)
  \/ StartSession(1, TRUE)
  \/ StartSend(1)
  \/ StartFinish(1, TRUE)
  \/ session.status = "recording" /\ StartReturned /\ StopCall
  \/ StopTimeout(OriginTab)
  \/ StopFinish
  \/ \E el \in InputEls : \E v \in InputValues(el) : Input("child", el, v)
  \/ Click("child", 1)
  \/ \E off \in ScrollOffsets : Scroll("child", off)
  \/ ScrollTimerFires("child")
  \/ PendingClickTimerFires("child")
  \/ FillWindowElapses("child")
  \/ WindowMessage
  \/ \E f \in Frames : BatchTimerFires(f)
  \/ \E f \in Frames : RecvStart(f)
  \/ \E f \in Frames : BgReceive(f)
  \/ RecvStop
  \/ StopAfterStepsAck
SpecFrames == InitFrames /\ [][NextFrames]_vars

\* The coordinator alone: a caller whose calls may come in any state, tabs
\* that answer STOP or do not, and content messages.
InitCoord == InitWith({})
NextCoord ==
  \/ StartCall(1)
  \/ \E found \in BOOLEAN : StartSession(1, found)
  \/ StartSend(1)
  \/ \E hasUrl \in BOOLEAN : StartFinish(1, hasUrl)
  \/ PauseCall
  \/ ResumeCall
  \/ StopCall
  \/ StopFinish
  \/ TabJoins
  \/ \E t \in Tabs : StopTimeout(t)
  \/ \E t \in Tabs, ack \in BOOLEAN : TabReplies(t, ack)
  \/ \E t \in Tabs : StopSendError(t)
  \/ ContentSteps(<<[mkStep("click", <<"#b">>, "", "", 0) EXCEPT !.id = 1]>>)
  \/ ContentVariables(<<[key |-> "pwd", sensitive |-> TRUE]>>)
SpecCoord == InitCoord /\ [][NextCoord]_vars

\* Two callers whose start calls overlap
NextStarts ==
  \/ \E c \in Callers : StartCall(c)
  \/ \E c \in Callers, found \in BOOLEAN : StartSession(c, found)
  \/ \E c \in Callers : StartSend(c)
  \/ \E c \in Callers, hasUrl \in BOOLEAN : StartFinish(c, hasUrl)
  \/ PauseCall
  \/ ResumeCall
  \/ StopCall
  \/ TabReplies(OriginTab, TRUE)
  \/ StopFinish
SpecStarts == InitCoord /\ [][NextStarts]_vars

\* One session being recorded: steps and variables messages of any shape
\* reach the coordinator.
NextAppend ==
  \/ session.status = "idle" /\ StartCall(1)
  \/ StartSession(1, TRUE)
  \/ StartSend(1)
  \/ \E hasUrl \in BOOLEAN : StartFinish(1, hasUrl)
  \/ \E batch \in Batches : ContentSteps(batch)
  \/ \E vs \in VarLists : ContentVariables(vs)
SpecAppend == InitCoord /\ [][NextAppend]_vars

\* Fast typing: a session in which the user never rests for 800 ms, so that
\* every input event falls into the debounce window of the one before it;
\* clicks may come in between; the session is stopped, after the recorder has
\* taken START, and never paused.
NextTyping ==
  \/ session.status = "idle" /\ StartCall(1)
  \/ StartSession(1, TRUE)
  \/ StartSend(1)
  \/ StartFinish(1, TRUE)
  \/ session.status = "recording" /\ StartReturned /\ ctl["top"] = <<>> /\ StopCall
  \/ StopFinish
  \/ \E el \in InputEls : \E v \in InputValues(el) : Types("top", el, v)
  \/ Click("top", 1)
  \/ BatchTimerFires("top")
  \/ PendingClickTimerFires("top")
  \/ RecvStart("top")
  \/ BgReceive("top")
  \/ RecvStop
  \/ StopAfterStepsAck
  \/ StopAfterVarsAck
SpecTyping == Init /\ [][NextTyping]_vars

\* Scrolling: a recording session in which the user only scrolls, the
\* document or the container #c, and the timers fire at any moment.
NextScroll ==
  \/ session.status = "idle" /\ StartCall(1)
  \/ StartSession(1, TRUE)
  \/ StartSend(1)
  \/ StartFinish(1, TRUE)
  \/ RecvStart("top")
  \/ \E src \in ScrollSources : ScrollEvent("top", src)
  \/ ScrollTimerFires("top")
  \/ BatchTimerFires("top")
  \/ BgReceive("top")
SpecScroll == Init /\ [][NextScroll]_vars

\* Forms: a session in which the user fills the text input, the password
\* input and the file input, and which is then stopped.
NextForms ==
  \/ session.status = "idle" /\ StartCall(1)
  \/ StartSession(1, TRUE)
  \/ StartSend(1)
  \/ StartFinish(1, TRUE)
  \/ session.status = "recording" /\ StartReturned /\ ctl["top"] = <<>> /\ StopCall
  \/ StopFinish
  \/ \E el \in InputEls : \E v \in InputValues(el) : Input("top", el, v)
  \/ FileChosen("top")
  \/ BatchTimerFires("top")
  \/ FillWindowElapses("top")
  \/ RecvStart("top")
  \/ BgReceive("top")
  \/ RecvStop
  \/ StopAfterStepsAck
  \/ StopAfterVarsAck
SpecForms == Init /\ [][NextForms]_vars

\* Window messages: a recording session in which windows of any kind post
\* Steps to the top window.
NextMessages ==
  \/ session.status = "idle" /\ StartCall(1)
  \/ StartSession(1, TRUE)
  \/ StartSend(1)
  \/ StartFinish(1, TRUE)
  \/ RecvStart("top")
  \/ \E source \in Windows, origin \in Origins : PostedMessage(source, origin)
  \/ BatchTimerFires("top")
  \/ BgReceive("top")
SpecMessages == Init /\ [][NextMessages]_vars

\* Injection: recorder.js is run in the top document any number of times,
\* before and while its recorder takes commands and events.  A command finds
\* a listener only once the script has run.
NextInject ==
  \/ Inject("top")
  \/ ctl["top"] = <<>> /\ page["top"].listeners > 0
       /\ \E cmd \in {"start", "pause", "resume"} : Control(cmd)
  \/ RecvStart("top")
  \/ RecvPause("top")
  \/ RecvResume("top")
  \/ \E e \in DomEvents : DomEvent("top", e)
  \/ BatchTimerFires("top")
  \/ ScrollTimerFires("top")
  \/ PendingClickTimerFires("top")
  \/ BgReceive("top")
SpecInject == InitState({"top"}, NoScript) /\ [][NextInject]_vars

\* Forms, with sends of the recorder that may fail
NextAck ==
  \/ NextForms
  \/ SendError("top")
SpecAck == Init /\ [][NextAck]_vars

\* One caller whose start may find no active tab or a page that takes no
\* scripts
NextStartFails ==
  \/ StartCall(1)
  \/ \E found \in BOOLEAN : StartSession(1, found)
  \/ StartInjectFails(1)
  \/ StartSend(1)
  \/ \E hasUrl \in BOOLEAN : StartFinish(1, hasUrl)
  \/ PauseCall
  \/ ResumeCall
  \/ StopCall
  \/ \E ack \in BOOLEAN : TabReplies(OriginTab, ack)
  \/ StopTimeout(OriginTab)
  \/ StopFinish
SpecStartFails == InitCoord /\ [][NextStartFails]_vars

\* One session after another: the user types during the first session only;
\* the stop of a session may time out.
NextSessions ==
  \/ session.status = "idle" /\ StartCall(1)
  \/ StartAgain(1)
  \/ StartSession(1, TRUE)
  \/ StartSend(1)
  \/ StartFinish(1, TRUE)
  \/ session.status = "recording" /\ StartReturned /\ ctl["top"] = <<>> /\ StopCall
  \/ StopTimeout(OriginTab)
  \/ StopFinish
  \/ session.flow = 1 /\ session.status = "recording"
       /\ \E v \in InputValues("q") : Input("top", "q", v)
  \/ BatchTimerFires("top")
  \/ RecvStart("top")
  \/ BgReceive("top")
  \/ RecvStop
  \/ StopAfterStepsAck
SpecSessions == Init /\ [][NextSessions]_vars

\* The earlier background listener, its recorder and the tabs
NextLegacy ==
  \/ LegacyStart
  \/ LegacyStop
  \/ RecorderStartEvent
  \/ \E type \in {"click", "dblclick", "fill"} : RecorderStepEvent(type)
  \/ RecorderStopEvent
  \/ \E t \in Tabs : \E c \in ChangeInfos : TabUpdated(t, c)
  \/ \E d \in Delays : Passes(d)
SpecLegacy == Init /\ [][NextLegacy]_vars

\* Forms, with keys pressed in the text input and on the button
NextKeys ==
  \/ NextForms
  \/ \E e \in KeyEvents : KeyDown("top", e)
SpecKeys == Init /\ [][NextKeys]_vars

\* Forms, with text composed (IME) in the text input
NextCompose ==
  \/ NextForms
  \/ \E v \in InputValues("q") : Composes("top", "q", v)
SpecCompose == Init /\ [][NextCompose]_vars

\* The top-frame recorder alone: control commands in any order, each sent
\* when the one before it has been received, DOM events and child-frame
\* messages in any state, a background that answers every message.  A STOP
\* that would start a second stop() while an earlier one still awaits its
\* answer is left out.
NextRecorder ==
  \/ ctl["top"] = <<>> /\ \E cmd \in {"start", "pause", "resume", "stop"} : Control(cmd)
  \/ RecvStart("top")
  \/ RecvPause("top")
  \/ RecvResume("top")
  \/ (rec["top"].stopPc = "none" \/ ~rec["top"].isRecording) /\ RecvStop
  \/ StopAfterStepsAck
  \/ StopAfterVarsAck
  \/ BgReceive("top")
  \/ \E e \in DomEvents : DomEvent("top", e)
  \/ ChildFramePosts
  \/ WindowMessage
  \/ BatchTimerFires("top")
  \/ ScrollTimerFires("top")
  \/ PendingClickTimerFires("top")
  \/ FillWindowElapses("top")
SpecRecorder == Init /\ [][NextRecorder]_vars

\* sendStopWithAck's setTimeout and the continuation of stop() are run by the
\* event loop of the service worker once they are due
FairCoord ==
  /\ SpecCoord
  /\ \A t \in Tabs : WF_vars(StopTimeout(t))
  /\ WF_vars(StopFinish)

\* ------------------------------------------------------------- properties
\* RecorderManager.stop has returned the Flow of the session it stopped, and
\* no later stop has begun
StopReturned ==
  /\ ret.op = "stop" /\ ret.success /\ ret.flow # 0
  /\ stopPc = "none" /\ stopSid = ret.flow

\* the Flows saveFlow was given by the stop of session ref
SavedByStop(ref) ==
  {saved[i] : i \in {j \in 1..Len(saved) : saved[j].by = "stop" /\ saved[j].flow = ref}}

\* the top recorder received the STOP of the session that has returned while
\* it was recording, and every tab answered within the 3 s
CleanStop == StopReturned /\ ~unclean /\ snapTop.sid = ret.flow

\* the Step of event ev is in Flow fl as entry e describes it
InFlow(fl, ev, e) ==
  \E i \in 1..Len(fl.steps) :
    /\ fl.steps[i].ev = ev /\ fl.steps[i].type = e.type
    /\ fl.steps[i].sel = e.sel /\ fl.steps[i].val = e.val

\* the entries of a snapshot of the given type whose Step was created or last
\* changed in a session that has not been paused since
Since(snap, type) ==
  {ev \in DOMAIN snap.steps : snap.steps[ev].type = type /\ ~snap.steps[ev].paused}

C2_PendingClickSurvivesStop ==
  CleanStop =>
    \A fl \in SavedByStop(ret.flow) : \A ev \in Since(snapTop, "click") :
      ~snapTop.steps[ev].pushed => InFlow(fl, ev, snapTop.steps[ev])

\* C3: when stop has returned after a clean stop, the offset of a scroll
\* that was pending, its 350 ms timer running, when the top recorder received
\* STOP is the offset of a scroll Step on that source in the returned Flow.
C3_PendingScrollSurvivesStop ==
  CleanStop =>
    \A fl \in SavedByStop(ret.flow) : \A ev \in Since(snapTop, "scroll") :
      ~snapTop.steps[ev].pushed =>
        \E i \in 1..Len(fl.steps) :
          /\ fl.steps[i].type = "scroll"
          /\ fl.steps[i].sel = snapTop.steps[ev].sel
          /\ fl.steps[i].val = snapTop.steps[ev].val

\* C4: when stop has returned and every tab answered in time, every Step that
\* was pending in the child-frame recorder when RecorderManager.stop began (a
\* stashed click, a pending scroll) is in the saved and returned Flow, under
\* the composite selector.
C4_ChildFrameDrains ==
  (StopReturned /\ ~unclean /\ snapChild.sid = ret.flow) =>
    \A fl \in SavedByStop(ret.flow) : \A ev \in DOMAIN snapChild.steps :
      ~snapChild.steps[ev].pushed =>
        \E i \in 1..Len(fl.steps) :
          /\ fl.steps[i].type = snapChild.steps[ev].type
          /\ fl.steps[i].val = snapChild.steps[ev].val
          /\ fl.steps[i].sel = IF snapChild.steps[ev].sel = <<>> THEN <<>>
                               ELSE <<FrameSelector>> \o snapChild.steps[ev].sel

\* how often the stop of session ref has called saveFlow
SavesByStop(ref) ==
  Cardinality({j \in 1..Len(saved) : saved[j].by = "stop" /\ saved[j].flow = ref})

Failed == {"nack", "error", "timeout"}

C6_AckFalseSurfaced ==
  (StopReturned /\ \E t \in Tabs : ackRes[t] \in Failed) =>
    /\ SavesByStop(ret.flow) = 1
    /\ ret # StopReturn(ret.flow)

\* C7: a stop call made in idle returns 'No active recording', one made in
\* stopping returns 'Stop already in progress'; neither changes the session
\* or the running barrier nor sends a STOP; no session is saved by stop twice.
C7_StopPreconditions ==
  /\ [][(calls'.stop = calls.stop + 1 /\ session.status \in {"idle", "stopping"}) =>
          /\ ret' = Ret("stop", FALSE,
                        IF session.status = "idle" THEN "No active recording"
                        ELSE "Stop already in progress", 0)
          /\ UNCHANGED <<session, flows, saved, stopPc, stopSid, ackRes, ctl>>]_vars
  /\ [][(calls'.stop = calls.stop + 1 /\ stopPc = "barrier") =>
          ret' = Ret("stop", FALSE, "Stop already in progress", 0)]_vars
  /\ [](\A ref \in 1..Len(flows) : SavesByStop(ref) <= 1)

\* C7 witness: a second stop was refused while the first was in its barrier
C7_Witness ==
  /\ calls.stop = 2 /\ stopPc = "barrier" /\ session.status = "stopping"
  /\ ret = Ret("stop", FALSE, "Stop already in progress", 0)

C9_AcceptsExactlyWhenRecordingOrStopping ==
  /\ [](canAcceptSteps(session) <=> session.status \in {"recording", "stopping"})
  /\ [][(appends' = appends + 1 /\ session.status \in {"idle", "paused"}) =>
          UNCHANGED <<flows, saved, bgMint>>]_vars

\* C9 witness: a steps message has arrived in paused and the Flow is empty
C9_Witness ==
  /\ lastMsg.status = "paused" /\ lastMsg.msg.kind = "steps"
  /\ session.status = "paused" /\ flows[session.flow].steps = <<>>

\* the index of the last Step of a batch that comes under id
LastWithId(incoming, id) ==
  CHOOSE j \in 1..Len(incoming) :
    incoming[j].id = id /\ \A k \in 1..Len(incoming) : incoming[k].id = id => k <= j

\* C10: in every Flow the ids stand in the order in which each first arrived;
\* an appendSteps batch keeps the id at every index, changes no Step whose id
\* is not in the batch, puts the batch's last Step of a known id at that id's
\* index, and lengthens the Flow by the number of new ids.
C10_UpsertKeepsPosition ==
  /\ [](\A r \in 1..Len(flows) : IdsOf(flows[r].steps) = arrival[r])
  /\ [][(appends' = appends + 1 /\ lastMsg'.msg.kind = "steps"
         /\ canAcceptSteps(session) /\ session.flow # 0) =>
          LET old == flows[session.flow].steps
              new == flows'[session.flow].steps
              inc == lastMsg'.msg.steps
              ids == {inc[j].id : j \in 1..Len(inc)} \ {0}
          IN /\ \A i \in 1..Len(old) :
                  /\ new[i].id = old[i].id
                  /\ old[i].id \notin ids => new[i] = old[i]
                  /\ old[i].id \in ids => new[i] = inc[LastWithId(inc, old[i].id)]
             /\ Len(new) = Len(old) + Minted(inc)
                             + Cardinality(ids \ {old[i].id : i \in 1..Len(old)})]_vars

\* C10 witness: a batch has replaced the first of two Steps, which kept its
\* index, and added a Step behind them
C10_Witness ==
  /\ session.flow # 0 /\ lastMsg.msg.kind = "steps" /\ Len(lastMsg.before) = 2
  /\ Len(flows[session.flow].steps) = 3
  /\ lastMsg.before[1].id = 1 /\ lastMsg.before[1].val = "a"
  /\ flows[session.flow].steps[1].id = 1 /\ flows[session.flow].steps[1].val = "b"
  /\ flows[session.flow].steps[2] = lastMsg.before[2]

\* C11: in every Flow every Step has an id and no two Steps share one,
\* whatever batches appendSteps was given: the same id twice in a batch, Steps
\* without id, ids the Flow already holds.
C11_StepIdsUnique ==
  \A r \in 1..Len(flows) : \A i, j \in 1..Len(flows[r].steps) :
    /\ flows[r].steps[i].id # 0
    /\ i # j => flows[r].steps[i].id # flows[r].steps[j].id

\* C11 witness: a batch that held twice an id the Flow already had was taken
\* after a Step without id had been given a minted id
C11_Witness ==
  /\ session.flow # 0 /\ lastMsg.status = "recording" /\ lastMsg.msg.kind = "steps"
  /\ Len(lastMsg.msg.steps) = 2
  /\ lastMsg.msg.steps[1].id = 1 /\ lastMsg.msg.steps[2].id = 1
  /\ lastMsg.msg.steps[1].val # lastMsg.msg.steps[2].val
  /\ \E i \in 1..Len(lastMsg.before) : lastMsg.before[i].id = 1
  /\ \E i \in 1..Len(lastMsg.before) : lastMsg.before[i].id >= MintBase
  /\ Len(flows[session.flow].steps) = Len(lastMsg.before)

\* the index of the first and of the last variable of a list that has key k
FirstWithKey(incoming, k) ==
  CHOOSE j \in 1..Len(incoming) :
    incoming[j].key = k /\ \A i \in 1..Len(incoming) : incoming[i].key = k => j <= i
LastWithKey(incoming, k) ==
  CHOOSE j \in 1..Len(incoming) :
    incoming[j].key = k /\ \A i \in 1..Len(incoming) : incoming[i].key = k => i <= j

\* C12: the variables of every Flow have distinct, non-empty keys; an
\* appendVariables call keeps the key at every index, leaves the variables
\* whose key it does not name as they are, puts the last definition it holds
\* of a key at the index the key has (for a new key: behind the old ones, in
\* the order of the keys' first occurrences), and stores no empty key.
C12_VariablesDedup ==
  /\ [](\A r \in 1..Len(flows) : \A i, j \in 1..Len(flows[r].variables) :
          /\ flows[r].variables[i].key # ""
          /\ i # j => flows[r].variables[i].key # flows[r].variables[j].key)
  /\ [][(appends' = appends + 1 /\ lastMsg'.msg.kind = "variables"
         /\ canAcceptSteps(session) /\ session.flow # 0) =>
          LET old == flows[session.flow].variables
              new == flows'[session.flow].variables
              inc == lastMsg'.msg.variables
              keys == {inc[j].key : j \in 1..Len(inc)} \ {""}
              oldKeys == {old[i].key : i \in 1..Len(old)}
          IN /\ Len(new) = Len(old) + Cardinality(keys \ oldKeys)
             /\ \A i \in 1..Len(old) :
                  /\ new[i].key = old[i].key
                  /\ old[i].key \notin keys => new[i] = old[i]
             /\ \A i \in 1..Len(new) :
                  new[i].key \in keys => new[i] = inc[LastWithKey(inc, new[i].key)]
             /\ \A i, j \in Len(old) + 1..Len(new) :
                  i < j => FirstWithKey(inc, new[i].key) < FirstWithKey(inc, new[j].key)]_vars

\* C12 witness: a list that names an empty key and redefines the first of
\* the Flow's two variables has been taken: the variable kept its index and
\* has the new definition
C12_Witness ==
  /\ session.flow # 0 /\ lastMsg.status = "recording"
  /\ lastMsg.msg.kind = "variables" /\ Len(lastMsg.msg.variables) = 2
  /\ lastMsg.msg.variables[1].key = ""
  /\ lastMsg.msg.variables[2] = [key |-> "pwd", sensitive |-> FALSE]
  /\ Len(lastMsg.before) = 2 /\ Len(flows[session.flow].variables) = 2
  /\ lastMsg.before[1] = [key |-> "pwd", sensitive |-> TRUE]
  /\ flows[session.flow].variables[1] = [key |-> "pwd", sensitive |-> FALSE]
  /\ flows[session.flow].variables[2] = lastMsg.before[2]

\* the top frame's listener takes the control command cmd in this step
Received(cmd) ==
  /\ ctl["top"] # <<>> /\ Head(ctl["top"]).cmd = cmd
  /\ ctl'["top"] = Tail(ctl["top"])

\* C13: a start the top recorder receives while recording and not paused
\* changes nothing of it (sessionBuffer, batch, lastFill included); a start
\* received while paused does what resume does and resets no buffer; a stop
\* received while not recording sends nothing and only replies
\* {ack: true, steps: 0, variables: 0}.
C13_ControlNoOps ==
  /\ [][(Received("start") /\ rec["top"].isRecording /\ ~rec["top"].isPaused) =>
          rec'["top"] = rec["top"]]_vars
  /\ [][(Received("start") /\ rec["top"].isPaused) =>
          /\ rec'["top"] = Collect(recResume(rec["top"]))
          /\ rec'["top"].isRecording /\ ~rec'["top"].isPaused /\ rec'["top"].attached
          /\ rec'["top"].steps = rec["top"].steps
          /\ rec'["top"].variables = rec["top"].variables
          /\ rec'["top"].batch = rec["top"].batch
          /\ rec'["top"].lastFill = rec["top"].lastFill]_vars
  /\ [][(Received("stop") /\ ~rec["top"].isRecording) =>
          rec'["top"] = [rec["top"] EXCEPT !.outBg =
                           Append(@, StopReplyMsg(TRUE, 0, 0))]]_vars

\* C13 witness: a stop that met no recording was answered with the empty
\* ack, and the second start, with one pause and no resume sent, has left the
\* recorder recording with the Steps of its buffer
C13_Witness ==
  /\ calls = [start |-> 2, stop |-> 1, pause |-> 1, resume |-> 0]
  /\ ctl["top"] = <<>>
  /\ rec["top"].isRecording /\ ~rec["top"].isPaused /\ rec["top"].steps # <<>>
  /\ rec["top"].outBg # <<>> /\ Head(rec["top"].outBg) = StopReplyMsg(TRUE, 0, 0)

\* C14: whenever the top recorder is not recording and no stop() is under
\* way (it has never started, or its last stop() has completed), it is not
\* paused either.
C14_StopReturnsToIdle ==
  (~rec["top"].isRecording /\ rec["top"].stopPc = "none") => ~rec["top"].isPaused

\* C16: while the top recorder is paused, a DOM event in the top frame (click,
\* input, change, scroll, keydown) and a message of the child frame leave the
\* recorder as it is: no Step is created or changed in sessionBuffer or batch,
\* nothing is stashed.
C16_PausedIgnoresEvents ==
  /\ [][(rec["top"].isPaused /\ events' = events + 1 /\ rec'["child"] = rec["child"]) =>
          rec'["top"] = rec["top"]]_vars
  /\ [][(rec["top"].isPaused /\ rec["child"].outWin # <<>>
         /\ rec'["child"].outWin = Tail(rec["child"].outWin)) =>
          rec'["top"] = rec["top"]]_vars

\* C16 witness: the first event came while the recorder was paused and left
\* no Step, the second came after the resume and is in the buffer
C16_Witness ==
  /\ 1 \in whilePaused /\ 1 \notin DOMAIN owed
  /\ calls.resume = 1 /\ rec["top"].isRecording /\ ~rec["top"].isPaused
  /\ \E i \in Range(rec["top"].steps) : rec["top"].obj[i].ev = 2

\* C15: when stop has returned the Flow of a session in which the top
\* recorder, recording, received PAUSE, and every tab answered the stop in
\* time, the saved Flow holds every Step the recorder had yet to send when
\* PAUSE came: the Steps of its batch and the fill in its debounce window with
\* the value they had, the stashed click, and the pending scroll's offset on
\* a scroll Step of its source.
C15_PauseCancelsNoWork ==
  (StopReturned /\ ~unclean /\ snapPause.sid = ret.flow) =>
    \A fl \in SavedByStop(ret.flow) : \A ev \in DOMAIN snapPause.steps :
      LET e == snapPause.steps[ev]
      IN IF e.type = "scroll"
         THEN \E i \in 1..Len(fl.steps) :
                /\ fl.steps[i].type = "scroll" /\ fl.steps[i].sel = e.sel
                /\ IF e.pushed THEN fl.steps[i].ev = ev ELSE fl.steps[i].val = e.val
         ELSE InFlow(fl, ev, e)

\* the indices of the fill Steps of Flow fl on the element with selector sel
FillsOn(fl, sel) ==
  {i \in 1..Len(fl.steps) : fl.steps[i].type = "fill" /\ fl.steps[i].sel = sel}

\* the input events on that element the recorders made a Step of; the Step of
\* the latest of them has the value observed last
FillEvents(sel) ==
  {ev \in DOMAIN owed : owed[ev].type = "fill" /\ owed[ev].sel = sel}
Latest(evs) == CHOOSE ev \in evs : \A x \in evs : x <= ev

\* C17: when stop has returned after a session in which every input event
\* came within 800 ms of the one before it, the saved Flow has for each
\* element at most one fill Step, and if the element was typed into, that Step
\* has the value observed last; inputs on other elements and clicks may have
\* come in between.
C17_DebounceCollapse ==
  CleanStop =>
    \A fl \in SavedByStop(ret.flow) : \A el \in InputEls :
      /\ Cardinality(FillsOn(fl, Selector(el))) <= 1
      /\ FillEvents(Selector(el)) # {} =>
           \E i \in FillsOn(fl, Selector(el)) :
             fl.steps[i].val = owed[Latest(FillEvents(Selector(el)))].val

Earliest(evs) == CHOOSE ev \in evs : \A x \in evs : ev <= x

\* C18: when stop has returned after a session that was never paused, the
\* saved Flow has, for each element that was typed into, exactly one fill Step,
\* and it is the Step the first input on the element created (Steps keep their
\* index in the Flow, so it stands where the element's first fill came in),
\* however much time passed between the inputs.
C18_OneFillAtFirstPosition ==
  (CleanStop /\ calls.pause = 0) =>
    \A fl \in SavedByStop(ret.flow) : \A el \in InputEls :
      FillEvents(Selector(el)) # {} =>
        /\ Cardinality(FillsOn(fl, Selector(el))) = 1
        /\ \A i \in FillsOn(fl, Selector(el)) :
             fl.steps[i].ev = Earliest(FillEvents(Selector(el)))

\* C19: when stop has returned after a session that was never paused, the
\* saved Flow has no two adjacent scroll Steps on the same source (both on the
\* document, or the same mode and selector), and every scroll Step the top
\* recorder pushed has in the Flow the offset the recorder last gave it: the
\* offset of the latest scroll merged into it.
C19_AdjacentScrollsMerge ==
  (CleanStop /\ calls.pause = 0) =>
    \A fl \in SavedByStop(ret.flow) :
      /\ \A i \in 1..Len(fl.steps) - 1 :
           ~(/\ fl.steps[i].type = "scroll" /\ fl.steps[i + 1].type = "scroll"
             /\ fl.steps[i].sel = fl.steps[i + 1].sel)
      /\ \A ev \in DOMAIN owed :
           (owed[ev].type = "scroll" /\ owed[ev].pushed) => InFlow(fl, ev, owed[ev])

\* the last Step of the top recorder's sessionBuffer
LastStep(R) == R.obj[R.steps[Len(R.steps)]]

\* C20: in a run of scroll events, a scroll event makes no Step: it replaces
\* the pending position, so that what is pending is always the offset of the
\* latest event, its timer armed; when the 350 ms timer fires, exactly one
\* Step takes that offset (a new scroll Step on the source, or the last Step
\* if it is a scroll on the same source) and nothing stays pending.  K events
\* that each come before the timer of the one before fires thus make one
\* scroll Step, with the offset of the last.
C20_ScrollCoalescing ==
  /\ [](rec["top"].scrollPending # NoScroll =>
          /\ rec["top"].scrollTimer
          /\ rec["top"].scrollPending.ev = events
          /\ rec["top"].scrollPending.off = OffsetOf(events))
  /\ [][events' = events + 1 =>
          /\ rec'["top"].steps = rec["top"].steps
          /\ rec'["top"].batch = rec["top"].batch
          /\ rec'["top"].obj = rec["top"].obj]_vars
  /\ [][(rec["top"].scrollTimer /\ ~rec'["top"].scrollTimer) =>
          LET p == rec["top"].scrollPending
              old == rec["top"].steps
              new == rec'["top"].steps
          IN /\ rec'["top"].scrollPending = NoScroll
             /\ \/ /\ new = old /\ old # <<>>
                   /\ LastStep(rec["top"]).type = "scroll"
                   /\ LastStep(rec["top"]).sel = p.sel
                   /\ rec'["top"].obj =
                        [rec["top"].obj EXCEPT ![old[Len(old)]].val = p.off]
                \/ /\ Len(new) = Len(old) + 1 /\ SubSeq(new, 1, Len(old)) = old
                   /\ LastStep(rec'["top"]).type = "scroll"
                   /\ LastStep(rec'["top"]).sel = p.sel
                   /\ LastStep(rec'["top"]).val = p.off
                   /\ LastStep(rec'["top"]).ev = p.ev
                   /\ \A i \in Range(old) : rec'["top"].obj[i] = rec["top"].obj[i]
                   /\ (old # <<>> /\ LastStep(rec["top"]).type = "scroll") =>
                        LastStep(rec["top"]).sel # p.sel]_vars

\* C20 witness: three scroll events, the last on #c, came before any timer
\* fired; the timer has made the one scroll Step, with the third offset
C20_Witness ==
  /\ events = 3 /\ rec["top"].scrollPending = NoScroll /\ ~rec["top"].scrollTimer
  /\ Len(rec["top"].steps) = 1
  /\ LastStep(rec["top"]).type = "scroll" /\ LastStep(rec["top"]).sel = Selector("c")
  /\ LastStep(rec["top"]).ev = 3 /\ LastStep(rec["top"]).val = OffsetOf(3)

\* C21: a click with detail 1 followed, as the next event, by a click with
\* detail >= 2 on the same element leaves one dblclick Step and no click Step
\* in what the recorder has pushed, whenever the second click comes relative
\* to the 300 ms timer the first one armed.
C21_DoubleClickExclusion ==
  \A ev \in DOMAIN owed :
    (owed[ev].type = "dblclick" /\ ev - 1 \in DOMAIN owed) =>
      ~(owed[ev - 1].type = "click" /\ owed[ev - 1].sel = owed[ev].sel)

\* the Steps of a list that events created stand in the order of the events
InEventOrder(steps) ==
  \A i, j \in 1..Len(steps) :
    (i < j /\ steps[i].ev # 0 /\ steps[j].ev # 0) => steps[i].ev < steps[j].ev

\* C22: the Steps the events of the top document created stand in the order
\* in which the events fired: in the recorder's sessionBuffer, in every steps
\* message on its way to the background and in every Flow, also when the
\* earlier event is a click that waits for its 300 ms timer or a scroll that
\* waits for its 350 ms timer.
C22_EventOrderPreserved ==
  /\ InEventOrder([i \in 1..Len(rec["top"].steps) |-> rec["top"].obj[rec["top"].steps[i]]])
  /\ \A k \in 1..Len(rec["top"].outBg) : InEventOrder(rec["top"].outBg[k].steps)
  /\ \A r \in 1..Len(flows) : InEventOrder(flows[r].steps)

\* the fill Steps of a list on the password input #p
PasswordFills(steps) ==
  {i \in 1..Len(steps) : steps[i].type = "fill" /\ steps[i].sel = Selector("p")}
Placeholder(key) == "{" \o key \o "}"
SensitiveVar(key) == [key |-> key, sensitive |-> TRUE]

\* C23: no fill Step on the password input #p, in the recorder's
\* sessionBuffer, in a steps message or in a Flow, has the value typed: it has
\* the placeholder of the input's key; while the sessionBuffer holds such a
\* Step its variables hold the key as sensitive, every variables message sent
\* after one carries the key as sensitive, and so does the Flow stop saved
\* after a clean stop, whatever was recorded before (a file chosen in the
\* file input of the same name).
C23_SensitivityRedaction ==
  LET R == rec["top"]
      buf == [i \in 1..Len(R.steps) |-> R.obj[R.steps[i]]]
  IN /\ \A i \in PasswordFills(buf) : buf[i].val = Placeholder(VarKey("p"))
     /\ \A k \in 1..Len(R.outBg) : \A i \in PasswordFills(R.outBg[k].steps) :
          R.outBg[k].steps[i].val = Placeholder(VarKey("p"))
     /\ \A r \in 1..Len(flows) : \A i \in PasswordFills(flows[r].steps) :
          flows[r].steps[i].val = Placeholder(VarKey("p"))
     /\ PasswordFills(buf) # {} => SensitiveVar(VarKey("p")) \in Range(R.variables)
     /\ \A k \in 1..Len(R.outBg) :
          (R.outBg[k].kind = "variables" /\ PasswordFills(buf) # {}) =>
            SensitiveVar(VarKey("p")) \in Range(R.outBg[k].variables)
     /\ CleanStop =>
          \A fl \in SavedByStop(ret.flow) :
            PasswordFills(fl.steps) # {} => SensitiveVar(VarKey("p")) \in Range(fl.variables)

\* the Steps of the top recorder's sessionBuffer
Timeline == [i \in 1..Len(rec["top"].steps) |-> rec["top"].obj[rec["top"].steps[i]]]

\* the top window's listener takes message m of the child frame in this step
TakesFrameMessage(m) ==
  /\ rec["top"].attached
  /\ rec["child"].outWin # <<>> /\ m = Head(rec["child"].outWin)
  /\ rec'["child"].outWin = Tail(rec["child"].outWin)

\* C24: a Step the child frame's recorder posts and the top window's listener
\* takes adds exactly one Step to the top recorder's timeline: the Step as
\* posted, its selector '#f |> inner', #f being the selector built for the
\* iframe and inner the selector built in the frame, and that composite put
\* in front of its candidates as a css candidate; no event has two Steps in
\* the timeline, and every Step of a child-frame event has this shape.
C24_CrossFrameComposition ==
  /\ [][\A m \in Range(rec["child"].outWin) :
          (TakesFrameMessage(m) /\ m.sel # <<>>) =>
            LET composite == <<FrameSelector>> \o m.sel
            IN /\ Len(rec'["top"].steps) = Len(rec["top"].steps) + 1
               /\ SubSeq(rec'["top"].steps, 1, Len(rec["top"].steps)) = rec["top"].steps
               /\ LastStep(rec'["top"]) =
                    [m EXCEPT !.sel = composite,
                              !.cand = <<[type |-> "css", value |-> composite]>> \o m.cand]
               /\ LastStep(rec'["top"]).sel[2] = owed[m.ev].sel[1]]_vars
  /\ [](\A i, j \in 1..Len(Timeline) :
          (i # j /\ Timeline[i].ev # 0) => Timeline[i].ev # Timeline[j].ev)
  /\ [](\A i \in 1..Len(Timeline) :
          (Timeline[i].ev \in DOMAIN owed /\ owed[Timeline[i].ev].frame = "child"
           /\ owed[Timeline[i].ev].sel # <<>>) =>
            /\ Timeline[i].sel = <<FrameSelector>> \o owed[Timeline[i].ev].sel
            /\ Timeline[i].cand # <<>>
            /\ Timeline[i].cand[1] = [type |-> "css", value |-> Timeline[i].sel])

\* C24 witness: the click on #b in the iframe is the one Step of the
\* timeline, under '#f |> #b'
C24_Witness ==
  /\ Len(Timeline) = 1 /\ Timeline[1].type = "click"
  /\ Timeline[1].ev \in DOMAIN owed /\ owed[Timeline[1].ev].frame = "child"
  /\ Timeline[1].sel = <<FrameSelector, "#b">>
  /\ Timeline[1].cand = <<[type |-> "css", value |-> <<FrameSelector, "#b">>],
                          [type |-> "css", value |-> <<"#b">>]>>

\* the message event is one _onWindowMessage has to reject
Rejected(m) ==
  \/ m.source \notin IFrames
  \/ iframeSameOrigin(m.source) /\ m.origin # SelfOrigin /\ m.origin # "null"

\* C25: a message of type rr_iframe_event whose source is not the
\* contentWindow of an iframe of the top document, or whose origin is neither
\* the document's nor "null" while the src of the iframe it comes from is of
\* the document's origin, leaves the top recorder as it is: no Step comes to
\* sessionBuffer or batch, no timer is armed.
C25_AuthRejection ==
  [][(events' = events + 1 /\ winMsg'.source # "" /\ Rejected(winMsg')) =>
       rec'["top"] = rec["top"]]_vars

\* C25 witness: the Step of the first message, from the iframe #g, is in the
\* timeline; the second message, of a window that is no iframe of the
\* document, has left none
C25_Witness ==
  /\ events = 2 /\ winMsg.source = "w" /\ rec["top"].attached
  /\ Len(Timeline) = 1 /\ Timeline[1].ev = 1 /\ Timeline[1].sel = <<"#g", "#b">>

\* C26: however often recorder.js is run in a document, the document has one
\* runtime message listener (and so at most one ContentRecorder, the one of
\* that listener's closure) once the script has run; a run after the first
\* changes neither the listeners nor anything of the recorder; no DOM event
\* has more than one Step in the timeline.
C26_IdempotentInjection ==
  /\ [](\A f \in Frames :
          /\ page[f].installed <=> page[f].runs > 0
          /\ page[f].listeners = IF page[f].runs > 0 THEN 1 ELSE 0)
  /\ [][\A f \in Frames :
          (page'[f].runs = page[f].runs + 1 /\ page[f].runs > 0) =>
            /\ rec' = rec /\ ctl' = ctl
            /\ page'[f].listeners = page[f].listeners
            /\ page'[f].installed = page[f].installed]_vars
  /\ [](\A i, j \in 1..Len(Timeline) :
          (i # j /\ Timeline[i].ev # 0) => Timeline[i].ev # Timeline[j].ev)

\* C26 witness: the script has run three times, last after the first event
\* had been recorded; the recorder still records, the Steps of both events
\* are in its timeline, once each
C26_Witness ==
  /\ page["top"].runs = 3 /\ page["top"].lastRunAt = 1 /\ page["top"].listeners = 1
  /\ rec["top"].isRecording /\ ~rec["top"].isPaused
  /\ Len(Timeline) = 2 /\ Timeline[1].ev = 1 /\ Timeline[2].ev = 2

\* C27: from the moment the top recorder's stop() has set isRecording to
\* false until it replies, nothing is added to sessionBuffer.steps or to the
\* batch: not by a DOM event, not by a message of a child frame, not by a
\* timer that fires while stop() awaits the coordinator's answers.
C27_NoStepsWhileStopping ==
  [][(rec["top"].stopPc # "none" /\ rec'["top"].stopPc # "none") =>
       /\ rec'["top"].steps = rec["top"].steps
       /\ rec'["top"].batch = rec["top"].batch]_vars

\* the top recorder's stop() sends its reply in this step
StopReplies ==
  /\ Len(rec'["top"].outBg) > 0
  /\ rec'["top"].outBg[Len(rec'["top"].outBg)].kind = "stopReply"
  /\ \/ rec["top"].stopPc # "none" /\ rec'["top"].stopPc = "none"
     \/ Received("stop") /\ rec'["top"].stopPc = "none"
TheReply == rec'["top"].outBg[Len(rec'["top"].outBg)]

\* C28: the ack of the top recorder's reply to STOP is true exactly if the
\* awaited steps send, made when the batch was not empty, and the awaited
\* variables send, made when there are variables, were both answered ok.  A
\* steps send that failed or was not acknowledged is followed by the
\* variables send all the same, a send error counts as false, and the reply
\* comes with the listeners detached and the buffer reset.
C28_ContentAck ==
  /\ [][(rec["top"].stopPc = "awaitSteps" /\ rec'["top"].stopPc # "awaitSteps") =>
          /\ rec["top"].reply \in {"ok", "error"}
          /\ IF Len(rec["top"].variables) > 0
             THEN /\ rec'["top"].stopPc = "awaitVars"
                  /\ rec'["top"].stepsAck = (rec["top"].reply = "ok")
                  /\ rec'["top"].outBg =
                       Append(rec["top"].outBg, VarsMsg(rec["top"].variables, TRUE))
             ELSE /\ StopReplies
                  /\ TheReply.ack = (rec["top"].reply = "ok")]_vars
  /\ [][(rec["top"].stopPc = "awaitVars" /\ rec'["top"].stopPc # "awaitVars") =>
          /\ StopReplies
          /\ TheReply.ack = (rec["top"].stepsAck /\ rec["top"].reply = "ok")]_vars
  /\ [][(Received("stop") /\ rec["top"].isRecording) =>
          LET R == finalizePendingScroll(rec["top"], "top")
          IN IF Len(R.batch) > 0 THEN rec'["top"].stopPc = "awaitSteps"
             ELSE IF Len(R.variables) > 0
             THEN rec'["top"].stopPc = "awaitVars" /\ rec'["top"].stepsAck
             ELSE StopReplies /\ TheReply.ack]_vars
  /\ [][StopReplies =>
          /\ ~rec'["top"].attached /\ ~rec'["top"].isRecording
          /\ rec'["top"].steps = <<>> /\ rec'["top"].lastFill = NoFill
          /\ ~rec'["top"].batchTimer /\ ~rec'["top"].pendingClickTimer]_vars

\* C28 witness: the recorder has replied ack = false after a stop with Steps
\* and variables to send: the steps send failed, the variables send that
\* followed reached the Flow
C28_Witness ==
  /\ rec["top"].outBg # <<>> /\ Head(rec["top"].outBg).kind = "stopReply"
  /\ ~Head(rec["top"].outBg).ack
  /\ Head(rec["top"].outBg).nsteps > 0 /\ Head(rec["top"].outBg).nvars > 0
  /\ session.flow # 0 /\ flows[session.flow].variables # <<>>
  /\ \A i \in 1..Len(flows[session.flow].steps) : flows[session.flow].steps[i].type # "fill"

\* the Step of event ev is in the top recorder's batch or in a steps message
\* on its way to the background
InTransit(ev) ==
  \/ \E i \in Range(rec["top"].batch) : rec["top"].obj[i].ev = ev
  \/ \E k \in 1..Len(rec["top"].outBg) : \E i \in 1..Len(rec["top"].outBg[k].steps) :
       rec["top"].outBg[k].steps[i].ev = ev

\* an input event is merged into the fill Step in its debounce window
MergesIntoLastFill ==
  /\ events' = events + 1
  /\ rec["top"].lastFill.step # 0
  /\ rec'["top"].lastFill.step = rec["top"].lastFill.step
  /\ rec'["top"].steps = rec["top"].steps
  /\ rec'["top"].pendingClick = rec["top"].pendingClick
  /\ rec'["top"].scrollPending = rec["top"].scrollPending

\* C29: the top recorder's batch and every steps message hold no id twice;
\* an input merged into the fill Step in its debounce window leaves the Step
\* in the batch under its id, once: where it stood if it was still there,
\* at the end if it had been flushed, and arms the batch timer; and whenever
\* a fill Step is neither in the batch nor on its way, the Flow's Step of
\* that event has the value the recorder last gave it.
C29_ContentUpsert ==
  /\ [](\A i, j \in 1..Len(rec["top"].batch) :
          i # j => rec["top"].batch[i] # rec["top"].batch[j])
  /\ [](\A k \in 1..Len(rec["top"].outBg) :
          \A i, j \in 1..Len(rec["top"].outBg[k].steps) :
            i # j => rec["top"].outBg[k].steps[i].id # rec["top"].outBg[k].steps[j].id)
  /\ [][MergesIntoLastFill =>
          LET id == rec["top"].lastFill.step
          IN /\ rec'["top"].obj[id].id = rec["top"].obj[id].id
             /\ rec'["top"].batch = IF id \in Range(rec["top"].batch)
                                    THEN rec["top"].batch
                                    ELSE Append(rec["top"].batch, id)
             /\ rec'["top"].batchTimer]_vars
  /\ [](\A ev \in DOMAIN owed :
          (owed[ev].type = "fill" /\ owed[ev].pushed /\ ~InTransit(ev)) =>
            /\ Len(flows) > 0
            /\ InFlow(flows[Len(flows)], ev, owed[ev]))

\* C29 witness: the Flow has the fill on #q with the value "a" that a flush
\* delivered, and the Step, updated to "ab", is alone in the batch again
C29_Witness ==
  /\ Len(flows) > 0 /\ Len(rec["top"].batch) = 1
  /\ LET s == rec["top"].obj[rec["top"].batch[1]]
     IN /\ s.type = "fill" /\ s.sel = Selector("q") /\ s.val = "ab"
        /\ \E i \in 1..Len(flows[Len(flows)].steps) :
             /\ flows[Len(flows)].steps[i].id = s.id
             /\ flows[Len(flows)].steps[i].val = "a"

\* the steps messages the top recorder sends in this step
SentNow ==
  {rec'["top"].outBg[k] : k \in Len(rec["top"].outBg) + 1..Len(rec'["top"].outBg)}

\* C30: when STOP reaches the top recorder while a fill on the text input is
\* in its debounce window (the element is still in the document), the final
\* flush carries that fill Step with the value the element has at that
\* moment, also when the element's last change came without a handled input
\* event.
C30_StopReadsElement ==
  [][(Received("stop") /\ rec["top"].isRecording /\ rec["top"].lastFill.step # 0
      /\ rec["top"].lastFill.fresh
      /\ rec["top"].obj[rec["top"].lastFill.step].ref = "q") =>
       \A m \in SentNow : m.kind = "steps" =>
         \A i \in 1..Len(m.steps) :
           m.steps[i].id = rec["top"].lastFill.step =>
             m.steps[i].val = dom["top"]["q"]]_vars

\* C31: a keydown that is no autorepeat, in an editable element, while the
\* top recorder listens: Enter adds one key Step whose target is the element;
\* any other key, with or without Ctrl or Shift, adds no Step.
C31_EditableKeysOnlyEnter ==
  [][\A e \in KeyEvents :
       (KeyDown("top", e) /\ Listening("top") /\ ~e.repeat /\ isEditable(e.el)) =>
         IF e.key = "Enter"
         THEN /\ Len(rec'["top"].steps) = Len(rec["top"].steps) + 1
              /\ LET s == rec'["top"].obj[rec'["top"].steps[Len(rec'["top"].steps)]]
                 IN s.type = "key" /\ s.sel = Selector(e.el)
         ELSE rec'["top"].steps = rec["top"].steps]_vars

\* the id of the click or dblclick Step the recorder emitted last (0: none)
LastClickId(steps) ==
  LET C == {i \in 1..Len(steps) : steps[i].type \in {"click", "dblclick"}}
  IN IF C = {} THEN 0 ELSE steps[CHOOSE i \in C : \A j \in C : j <= i].id

C33_NestedFrameHoisted ==
  [][(events' = events + 1 /\ winMsg'.source \in NestedFrames
      /\ winMsg'.origin = SelfOrigin
      /\ rec["top"].attached /\ rec["top"].isRecording) =>
       \E i \in 1..Len(rec'["top"].steps) :
         rec'["top"].obj[rec'["top"].steps[i]].ev = events + 1]_vars

\* C34: the recorder of the child frame has no steps message on its way to
\* the coordinator, and every fill Step of a Flow whose id is of the child
\* frame has the composite selector, the frame's selector before its own.
C34_ChildStepsThroughTop ==
  /\ \A k \in 1..Len(rec["child"].outBg) : rec["child"].outBg[k].kind # "steps"
  /\ \A r \in 1..Len(flows) : \A i \in 1..Len(flows[r].steps) :
       (flows[r].steps[i].id > IdBase("child") /\ flows[r].steps[i].type = "fill") =>
         /\ Len(flows[r].steps[i].sel) = 2
         /\ flows[r].steps[i].sel[1] = FrameSelector

\* C35: no Step that a recorder made of a DOM event of the first session is in
\* the Flow of the second session (in SpecSessions every DOM event is of the
\* first session), however late its batch was sent or delivered.
C35_SessionIsolation ==
  Len(flows) >= 2 =>
    \A i \in 1..Len(flows[2].steps) : flows[2].steps[i].ev \notin 1..events

\* C36: at the step in which a stop() of the top recorder that found it
\* recording sends its reply, the batch is empty and the batch timer is not
\* armed.
C36_NoStrandedSteps ==
  [][((rec["top"].isRecording \/ rec["top"].stopPc # "none")
      /\ \E m \in SentNow : m.kind = "stopReply") =>
       (rec'["top"].batch = <<>> /\ ~rec'["top"].batchTimer)]_vars

\* C37: while the status is not idle no step replaces the session's Flow or
\* sessionId; and when a start call returns success, no other of the calls
\* that read idle with it has installed a session (so that at most one of
\* them returns success).
C37_ConcurrentStartsExclusive ==
  /\ [][(session.status # "idle" /\ session'.status # "idle") =>
          (session'.flow = session.flow /\ session'.sessionId = session.sessionId)]_vars
  /\ [][\A c \in Callers :
          (startPc[c] = "sent" /\ startPc'[c] = "none" /\ ret'.success) =>
            \A d \in Callers \ {c} : startFlow[d] = 0]_vars

\* C38: when a start call that went ahead from idle ends without success (no
\* active tab, injection failed), the status is idle, there is no Flow and
\* activeTabs is empty.
C38_FailedStartLeavesIdle ==
  [][\A c \in Callers :
       (startPc[c] # "none" /\ startPc'[c] = "none" /\ ~ret'.success) =>
         /\ session'.status = "idle"
         /\ session'.flow = 0
         /\ session'.activeTabs = {}]_vars

\* C39: in every state the status is idle exactly if there is no Flow; in
\* idle originTabId is null and activeTabs and stoppedTabs are empty; a steps
\* or variables message that comes in idle changes nothing.
C39_StateConsistency ==
  /\ [](session.status = "idle" <=> session.flow = 0)
  /\ [](session.status = "idle" =>
          /\ session.originTabId = 0
          /\ session.activeTabs = {}
          /\ session.stoppedTabs = {})
  /\ [][(appends' = appends + 1 /\ session.status = "idle") =>
          UNCHANGED <<session, flows, saved, bgMint>>]_vars

\* C40: when a scroll event on one source comes while a scroll of another
\* source is pending, the pending position is not lost: right after the
\* event a scroll Step of that source with that offset is in the buffer, or
\* the position is still pending.
C40_NoScrollSourceDropped ==
  [][\A src \in ScrollSources :
       LET p == rec["top"].scrollPending
       IN (ScrollEvent("top", src) /\ p # NoScroll
           /\ [isDoc |-> p.isDoc, sel |-> p.sel] # src) =>
            \/ \E i \in 1..Len(rec'["top"].steps) :
                 LET s == rec'["top"].obj[rec'["top"].steps[i]]
                 IN s.type = "scroll" /\ s.sel = p.sel /\ s.val = p.off
            \/ rec'["top"].scrollPending = p]_vars
====
